---- MODULE Spec2Model ----
(***************************************************************************)
(* A state-machine model of the substitution engine (dace/sdfg/replace.py), *)
(* of the ConstSymbolToMap transformation                                  *)
(* (dace/transformation/interstate/const_symbol_to_map.py) and of the      *)
(* GPUTransformSDFG transformation                                         *)
(* (dace/transformation/interstate/gpu_transform_sdfg.py).                 *)
(*                                                                         *)
(* Names (symbols, data descriptors, connectors) are the integers          *)
(* 1..NumNames; their numeric order is the alphabetical order of the       *)
(* identifiers, which is the order in which sympy's Basic.subs applies the *)
(* pairs of a dict of plain symbols.                                       *)
(***************************************************************************)
EXTENDS Integers, Sequences, FiniteSets, TLC

\* ------------------------------------------------------------------ bounds
NumNames == 3
MaxExprLen == 2
MaxRepl == 2
MaxCalls == 2
NumCodeNames == 2
MaxCodeLen == 2
NumSyms == 2
MaxApplyCalls == 4
NumData == 2
MaxGpuRuns == 2
NumElements == 2
NumTasklets == 3
NumFixData == 3

Names == 1..NumNames

\* ------------------------------------------------------- names, expressions
\* A (possibly dotted) name: "x" is [base |-> x, suf |-> <<>>], "x.f" is
\* [base |-> x, suf |-> <<"f">>].  base 0 is no name at all: None as a data
\* name, a numeric constant as the atom of an expression.
Suffixes == {<<>>, <<"f">>}
DottedNames == [base : Names, suf : Suffixes]
Plain(n) == [base |-> n, suf |-> <<>>]
NoData == [base |-> 0, suf |-> <<>>]
Num == [base |-> 0, suf |-> <<>>]
Atoms == DottedNames \cup {Num}

\* A symbolic expression: a non-commutative application over its atoms, so
\* that exchanging two atoms is visible.  <<>> is None.
Exprs == UNION {[1..k -> Atoms] : k \in 1..MaxExprLen}
NoExpr == <<>>

\* The replacement dictionaries: old name -> new name, at most MaxRepl entries.
Repls == UNION {[K -> Names] : K \in {S \in SUBSET Names : Cardinality(S) <= MaxRepl}}

\* The iteration orders of a dict (or set) with key set S.
Orders(S) == {s \in [1..Cardinality(S) -> S] : \A i, j \in 1..Cardinality(S) : s[i] = s[j] => i = j}

\* The keys of S in increasing order.
RECURSIVE SortedFrom(_, _)
SortedFrom(S, k) ==
    IF k > NumNames THEN <<>>
    ELSE (IF k \in S THEN <<k>> ELSE <<>>) \o SortedFrom(S, k + 1)
Sorted(S) == SortedFrom(S, 1)

\* ------------------------------------------------------ symbolic substitution
\* old._subs(new) on an expression: every occurrence of the symbol k, also as
\* the object of a member access k.f, becomes v.
SubsOne(e, k, v) ==
    [i \in 1..Len(e) |-> IF e[i].base = k THEN [base |-> v, suf |-> e[i].suf] ELSE e[i]]

\* expr.subs(dict): the pairs are sorted by key and applied one after another,
\* each to the result of the one before.
RECURSIVE SubsSeq(_, _, _)
SubsSeq(e, m, keys) ==
    IF keys = <<>> THEN e
    ELSE SubsSeq(SubsOne(e, Head(keys), m[Head(keys)]), m, Tail(keys))
Subs(e, m) == SubsSeq(e, m, Sorted(DOMAIN m))

\* str(s) for s in expr.free_symbols: a member access contributes the dotted
\* string "x.f", not "x".
FreeSymbols(e) == {e[i] : i \in {j \in 1..Len(e) : e[j].base # 0}}

\* fsyms of _internal_replace: the free symbols plus every proper dotted prefix.
FsymsWithPrefixes(e) == FreeSymbols(e) \cup {Plain(a.base) : a \in {b \in FreeSymbols(e) : b.suf # <<>>}}

\* _internal_replace(sym, symrepl)
InternalReplace(e, m) ==
    LET newrepl == [k \in {k \in DOMAIN m : Plain(k) \in FsymsWithPrefixes(e)} |-> m[k]]
    IN IF DOMAIN newrepl = {} THEN e ELSE Subs(e, newrepl)

\* A dimension of a range or shape: a tuple of expressions (begin, end) or one
\* scalar expression (the TypeError branch of _replsym).
Dims == {[tuple |-> TRUE, elts |-> <<(<<a>>), (<<b>>)>>] : a, b \in Atoms}
        \cup {[tuple |-> FALSE, elts |-> <<e>>] : e \in Exprs}
Ranges == {<<d>> : d \in Dims}
NoRange == <<>>

\* _replsym(symlist, symrepl) on a list of dimensions
ReplSym(symlist, m) ==
    [i \in 1..Len(symlist) |->
        [tuple |-> symlist[i].tuple,
         elts |-> [j \in 1..Len(symlist[i].elts) |-> InternalReplace(symlist[i].elts[j], m)]]]

\* subset.free_symbols of a range
RangeFreeSymbols(r) ==
    UNION {UNION {FreeSymbols(r[i].elts[j]) : j \in 1..Len(r[i].elts)} : i \in 1..Len(r)}

\* ------------------------------------------------------------ embedded code
\* The text of a code block is a sequence of tokens: an identifier that is
\* exactly the name n, a longer identifier that has n as a proper substring
\* (n_1, say), the keyword auto, or punctuation (0 is "=", 1 is ";\n").  A code
\* block of the native dialect holds the same tokens as the Name nodes of its
\* syntax tree.
Id(n) == [t |-> "id", n |-> n]
Long(n) == [t |-> "long", n |-> n]
Auto == [t |-> "auto", n |-> 0]
Punct(c) == [t |-> "punct", n |-> c]
CodeTokens == {Id(n) : n \in Names} \cup {Long(n) : n \in Names}
Languages == {"Python", "CPP", "MLIR"}

\* (mutant) a substring search instead of the tokenizer: a longer identifier
\* that contains the name counts as an occurrence of it
TokenizedBySubstring(code) == {code[i].n : i \in {j \in 1..Len(code) : code[j].t \in {"id", "long"}}}

\* tokenize_cpp.findall(code), as the set of words that are names
Tokenized(code) == {code[i].n : i \in {j \in 1..Len(code) : code[j].t = "id"}}

\* cppunparse.pyexpr2cpp(new_name) of a plain identifier: the identifier
Pyexpr2cpp(v) == <<Id(v)>>

\* f'auto {name} = {cppunparse.pyexpr2cpp(new_name)};\n'
Replacement(name, v) == <<Auto, Id(name), Punct(0)>> \o Pyexpr2cpp(v) \o <<Punct(1)>>

\* The loop of replace_in_codeblock over repl.items() in the order `order`,
\* from entry i on: each tokenized name puts its binding in front of the
\* prefix built so far.
RECURSIVE CppPrefix(_, _, _, _, _)
CppPrefix(code, repl, order, i, prefix) ==
    IF i > Len(order) THEN prefix
    ELSE CppPrefix(code, repl, order, i + 1,
                   IF order[i] \in Tokenized(code)
                   THEN Replacement(order[i], repl[order[i]]) \o prefix
                   ELSE prefix)

\* (mutant) every key of the mapping counts as replaced
ActiveReplacementsOfAllKeys(code, repl) == DOMAIN repl

\* active_replacements of replace_in_codeblock
ActiveReplacements(code, repl) == DOMAIN repl \cap Tokenized(code)

\* ASTFindReplace(repl).visit(stmt): every Name node whose id is a key becomes
\* the parsed replacement; each node is visited once.
ASTFindReplace(code, repl) ==
    [i \in 1..Len(code) |->
        IF code[i].t = "id" /\ code[i].n \in DOMAIN repl THEN Id(repl[code[i].n]) ELSE code[i]]

\* replace_in_codeblock(codeblock, repl, node).  lang "None" is a code block
\* whose code is None; a Python block holds a list of statements, every other
\* language a string.  The result is the new code, the new ignored_symbols of
\* the node, and how the call ended: in the branch of an unsupported language
\* the arguments of the warning message are the loop variables name and
\* new_name of the C++ branch, which are unbound there.
ReplaceInCodeblock(lang, code, ignored, isTasklet, repl, order) ==
    IF lang \notin {"None", "Python"} /\ code # <<>> THEN
        IF lang = "CPP" THEN
            LET prefix == CppPrefix(code, repl, order, 1, <<>>) IN
            IF prefix # <<>>
            THEN [code |-> prefix \o code,
                  ignored |-> IF isTasklet THEN ignored \cup ActiveReplacements(code, repl) ELSE ignored,
                  exc |-> "none", warned |-> FALSE]
            ELSE [code |-> code, ignored |-> ignored, exc |-> "none", warned |-> FALSE]
        ELSE [code |-> code, ignored |-> ignored, exc |-> "UnboundLocalError", warned |-> FALSE]
    ELSE IF lang # "None"
    THEN [code |-> ASTFindReplace(code, repl), ignored |-> ignored, exc |-> "none", warned |-> FALSE]
    ELSE [code |-> code, ignored |-> ignored, exc |-> "none", warned |-> FALSE]

\* ------------------------------------------------------------ nodes and edges
\* A node with its properties; a property the node's type does not have is
\* None (NoExpr, NoData, NoRange, lang "None").  symbol_mapping holds the
\* values of a nested SDFG's mapping.
DefaultNode ==
    [kind |-> "Other", sym |-> NoExpr, data |-> NoData, range |-> NoRange,
     lang |-> "None", code |-> <<>>, in_connectors |-> {}, out_connectors |-> {},
     ignored_symbols |-> {}, symbol_mapping |-> <<>>]

\* The memlet of an edge; data None is NoData, subset None is NoRange.
DefaultMemlet ==
    [data |-> NoData, subset |-> NoRange, other_subset |-> NoRange, volume |-> <<Num>>]

\* (mutant) only the input connectors are dropped from the mapping
ReducedReplInputsOnly(node, repl) ==
    [k \in DOMAIN repl \ node.in_connectors |-> repl[k]]

\* The code branch of replace_properties_dict: the keys that are connectors of
\* the node are dropped, and the dict rebuilt from a set is iterated in the
\* order `order`.
ReducedRepl(node, repl) ==
    [k \in DOMAIN repl \ (node.in_connectors \cup node.out_connectors) |-> repl[k]]

\* replace_properties_dict(node, repl, symrepl): the node afterwards, and how
\* the call ended.
ReplacePropertiesDict(node, repl, order) ==
    LET reduced == ReducedRepl(node, repl)
        InReduced(k) == k \in DOMAIN reduced
        cb == ReplaceInCodeblock(node.lang, node.code, node.ignored_symbols,
                                 node.kind = "Tasklet", reduced, SelectSeq(order, InReduced))
    IN [node |->
            [kind |-> node.kind,
             sym |-> IF node.sym = NoExpr THEN NoExpr ELSE Subs(node.sym, repl),
             data |-> IF node.data.suf = <<>> /\ node.data.base \in DOMAIN repl
                      THEN Plain(repl[node.data.base]) ELSE node.data,
             range |-> IF node.range = NoRange THEN NoRange ELSE ReplSym(node.range, repl),
             lang |-> node.lang,
             code |-> cb.code,
             in_connectors |-> node.in_connectors,
             out_connectors |-> node.out_connectors,
             ignored_symbols |-> cb.ignored,
             symbol_mapping |-> [i \in 1..Len(node.symbol_mapping) |-> Subs(node.symbol_mapping[i], repl)]],
        exc |-> cb.exc, warned |-> cb.warned]

\* The memlet loop body of replace_dict.
ReplaceMemlet(m, repl) ==
    [data |-> IF m.data.suf = <<>> /\ m.data.base \in DOMAIN repl
              THEN Plain(repl[m.data.base]) ELSE m.data,
     subset |-> IF m.subset # NoRange
                   /\ {Plain(k) : k \in DOMAIN repl} \cap RangeFreeSymbols(m.subset) # {}
                THEN ReplSym(m.subset, repl) ELSE m.subset,
     other_subset |-> IF m.other_subset # NoRange
                         /\ {Plain(k) : k \in DOMAIN repl} \cap RangeFreeSymbols(m.other_subset) # {}
                      THEN ReplSym(m.other_subset, repl) ELSE m.other_subset,
     volume |-> IF {Plain(k) : k \in DOMAIN repl} \cap FreeSymbols(m.volume) # {}
                THEN InternalReplace(m.volume, repl) ELSE m.volume]

\* replace_dict(subgraph, repl): first the properties of the nodes, then the
\* memlets of the edges; an exception raised for a node leaves the edges as
\* they are.
ReplaceDict(g, repl, order) ==
    LET n == ReplacePropertiesDict(g.node, repl, order) IN
    [graph |-> [node |-> n.node,
                edge |-> IF n.exc = "none" THEN ReplaceMemlet(g.edge, repl) ELSE g.edge],
     exc |-> n.exc, warned |-> n.warned]

\* replace(subgraph, name, new_name)
Replace(g, name, new_name) ==
    IF name = new_name
    THEN [graph |-> g, exc |-> "none", warned |-> FALSE]
    ELSE ReplaceDict(g, (name :> new_name), <<name>>)

\* ------------------------------------------------------------------- state
VARIABLES
    graph,      \* the subgraph: one node and the memlet of one edge
    sdfg,       \* the SDFG: descriptor and constant tables, control-flow regions
    cfg,        \* the SDFG a transformation is matched against
    xf,         \* ConstSymbolToMap: the class's map_symbols, each instance's symbol_edge
    pre,        \* the object of the last call as it was when the call started
    call,       \* the last call: its operation and its arguments
    exc,        \* the exception the last call ended with, or "none"
    warned,     \* whether the last call issued a warning
    ncalls      \* the number of calls made

vars == <<graph, sdfg, cfg, xf, pre, call, exc, warned, ncalls>>

\* The values of the objects a specification does not use.
IdleSdfg == [arrays |-> <<>>, constants_prop |-> <<>>, regions |-> <<>>]
IdleCfg == [arrays |-> {}, free_symbols |-> <<>>, edges |-> <<>>]
IdleXf == [map_symbols |-> <<>>, symbol_edge |-> <<>>, ret |-> FALSE]

NoCall == [op |-> "none", repl |-> <<>>, order |-> <<>>, node |-> FALSE]

\* The graphs the calls start from: one property of the node or one field of
\* the memlet holds a value, the others their defaults.
ExprNodes == {[DefaultNode EXCEPT !.kind = "Consume", !.sym = e] : e \in Exprs}
AccessNodes == {[DefaultNode EXCEPT !.kind = "AccessNode", !.data = d] : d \in DottedNames}
MapNodes == {[DefaultNode EXCEPT !.kind = "MapEntry", !.range = r] : r \in Ranges}
NestedNodes == {[DefaultNode EXCEPT !.kind = "NestedSDFG", !.symbol_mapping = <<e>>] : e \in Exprs}
Connectors == {[i |-> {}, o |-> {}]} \cup {[i |-> {n}, o |-> {}] : n \in Names}
              \cup {[i |-> {}, o |-> {n}] : n \in Names}
SmallTasklets ==
    {[DefaultNode EXCEPT !.kind = "Tasklet", !.lang = l, !.code = <<Id(n)>>, !.in_connectors = c.i,
                         !.out_connectors = c.o]
        : l \in Languages, n \in Names, c \in Connectors}
Memlets ==
    {[DefaultMemlet EXCEPT !.data = d] : d \in DottedNames}
    \cup {[DefaultMemlet EXCEPT !.data = Plain(1), !.subset = r] : r \in Ranges}
    \cup {[DefaultMemlet EXCEPT !.data = Plain(1), !.subset = <<[tuple |-> FALSE, elts |-> <<(<<Num>>)>>]>>,
                                !.other_subset = r] : r \in Ranges}
    \cup {[DefaultMemlet EXCEPT !.data = Plain(1), !.volume = e] : e \in Exprs}
Graphs ==
    {[node |-> n, edge |-> DefaultMemlet]
        : n \in ExprNodes \cup AccessNodes \cup MapNodes \cup NestedNodes \cup SmallTasklets}
    \cup {[node |-> DefaultNode, edge |-> m] : m \in Memlets}

Init ==
    /\ graph \in Graphs
    /\ sdfg = IdleSdfg
    /\ cfg = IdleCfg
    /\ xf = IdleXf
    /\ pre = graph
    /\ call = NoCall
    /\ exc = "none"
    /\ warned = FALSE
    /\ ncalls = 0

\* The orders in which a call may iterate its dictionary: only the C++ branch
\* of replace_in_codeblock depends on the order.
OrdersFor(node, repl) ==
    IF node.lang = "CPP" THEN Orders(DOMAIN repl) ELSE {Sorted(DOMAIN repl)}

\* A call of replace_dict(subgraph, repl)
DoReplaceDict ==
    /\ ncalls < MaxCalls
    /\ \E repl \in Repls : \E order \in OrdersFor(graph.node, repl) :
        LET r == ReplaceDict(graph, repl, order) IN
        /\ graph' = r.graph
        /\ exc' = r.exc
        /\ warned' = r.warned
        /\ call' = [op |-> "replace_dict", repl |-> repl, order |-> order, node |-> TRUE]
    /\ pre' = graph
    /\ ncalls' = ncalls + 1
    /\ UNCHANGED <<sdfg, cfg, xf>>

\* A call of replace(subgraph, name, new_name)
DoReplace ==
    /\ ncalls < MaxCalls
    /\ \E name \in Names, new_name \in Names :
        LET r == Replace(graph, name, new_name) IN
        /\ graph' = r.graph
        /\ exc' = r.exc
        /\ warned' = r.warned
        /\ call' = [op |-> "replace", repl |-> (name :> new_name), order |-> <<name>>, node |-> TRUE]
    /\ pre' = graph
    /\ ncalls' = ncalls + 1
    /\ UNCHANGED <<sdfg, cfg, xf>>

Next == DoReplaceDict \/ DoReplace

Spec == Init /\ [][Next]_vars

\* ------------------------------------------------- code blocks on their own
\* The tasklets replace_in_codeblock and replace_properties_dict are applied
\* to: code of every language over the identifiers 1..NumCodeNames, with or
\* without a connector, with or without an ignored symbol.
CodeNames == 1..NumCodeNames
CodeTexts ==
    UNION {[1..k -> {Id(n) : n \in CodeNames} \cup {Long(n) : n \in CodeNames}] : k \in 0..MaxCodeLen}
CodeConnectors == {[i |-> {}, o |-> {}]} \cup {[i |-> {n}, o |-> {}] : n \in CodeNames}
                  \cup {[i |-> {}, o |-> {n}] : n \in CodeNames}
Tasklets ==
    {[DefaultNode EXCEPT !.kind = "Tasklet", !.lang = l, !.code = c, !.in_connectors = cn.i,
                         !.out_connectors = cn.o, !.ignored_symbols = ig]
        : l \in Languages, c \in CodeTexts, cn \in CodeConnectors, ig \in {{}, {1}}}
CodeRepls == UNION {[K -> CodeNames] : K \in {S \in SUBSET CodeNames : Cardinality(S) <= MaxRepl}}

InitCode ==
    /\ graph \in {[node |-> n, edge |-> DefaultMemlet] : n \in Tasklets}
    /\ sdfg = IdleSdfg
    /\ cfg = IdleCfg
    /\ xf = IdleXf
    /\ pre = graph
    /\ call = NoCall
    /\ exc = "none"
    /\ warned = FALSE
    /\ ncalls = 0

\* A call of replace_in_codeblock(codeblock, repl, node) on the code block of
\* the tasklet, with the tasklet as node or with no node.
DoReplaceInCodeblock ==
    /\ ncalls = 0
    /\ \E repl \in CodeRepls : \E order \in Orders(DOMAIN repl) : \E withNode \in BOOLEAN :
        LET n == graph.node
            r == ReplaceInCodeblock(n.lang, n.code, n.ignored_symbols, withNode, repl, order)
        IN
        /\ graph' = [graph EXCEPT !.node.code = r.code, !.node.ignored_symbols = r.ignored]
        /\ exc' = r.exc
        /\ warned' = r.warned
        /\ call' = [op |-> "replace_in_codeblock", repl |-> repl, order |-> order, node |-> withNode]
    /\ pre' = graph
    /\ ncalls' = ncalls + 1
    /\ UNCHANGED <<sdfg, cfg, xf>>

\* A call of replace_properties_dict(node, repl) on the tasklet
DoReplacePropertiesDict ==
    /\ ncalls = 0
    /\ \E repl \in CodeRepls : \E order \in Orders(DOMAIN repl) :
        LET r == ReplacePropertiesDict(graph.node, repl, order) IN
        /\ graph' = [graph EXCEPT !.node = r.node]
        /\ exc' = r.exc
        /\ warned' = r.warned
        /\ call' = [op |-> "replace_properties_dict", repl |-> repl, order |-> order, node |-> TRUE]
    /\ pre' = graph
    /\ ncalls' = ncalls + 1
    /\ UNCHANGED <<sdfg, cfg, xf>>

NextCode == DoReplaceInCodeblock \/ DoReplacePropertiesDict

SpecCode == InitCode /\ [][NextCode]_vars

\* ------------------------------------------------------ claims on code blocks
\* The binding statement "auto k = v;" and the places of the new code at which
\* a statement of the prefix starts.
BindingOf(k, v) == <<Auto, Id(k), Punct(0), Id(v), Punct(1)>>
PrefixLen == Len(graph.node.code) - Len(pre.node.code)
BindingStarts == {j \in 1..PrefixLen : graph.node.code[j] = Auto}
BindingAt(j) == SubSeq(graph.node.code, j, j + 4)
OccursAsToken(k, code) == \E i \in 1..Len(code) : code[i] = Id(k)
OccursOnlyInLonger(k, code) ==
    /\ ~OccursAsToken(k, code)
    /\ \E i \in 1..Len(code) : code[i] = Long(k)
CppCall(op) ==
    /\ call.op = op
    /\ pre.node.lang = "CPP"
    /\ pre.node.code # <<>>

\* C6: replace_in_codeblock on a non-empty C++ code block gives prefix +
\* original text, the original text unmodified; the prefix holds exactly one
\* binding statement "auto k = repl[k];" for each key k that occurs as a
\* whole-word token of the original text and nothing else, so a key that
\* occurs only inside a longer identifier gets none, and with no key
\* tokenized the code is unchanged.
C6_OneBindingPerTokenizedKey ==
    CppCall("replace_in_codeblock") =>
        LET old == pre.node.code
            new == graph.node.code
            keys == {k \in DOMAIN call.repl : OccursAsToken(k, old)}
        IN /\ exc = "none"
           /\ PrefixLen = 5 * Cardinality(keys)
           /\ SubSeq(new, PrefixLen + 1, Len(new)) = old
           /\ Cardinality(BindingStarts) = Cardinality(keys)
           /\ \A j \in BindingStarts : \E k \in keys : BindingAt(j) = BindingOf(k, call.repl[k])
           /\ \A k \in keys :
                Cardinality({j \in BindingStarts : BindingAt(j) = BindingOf(k, call.repl[k])}) = 1
           /\ (keys = {} => new = old)

\* C6 witness: a mapping of two keys applied to C++ code in which one key is a
\* token and the other occurs only inside a longer identifier; one binding
\* was prepended.
C6_Witness ==
    /\ CppCall("replace_in_codeblock")
    /\ Cardinality(DOMAIN call.repl) = 2
    /\ \E k1, k2 \in DOMAIN call.repl :
        /\ OccursAsToken(k1, pre.node.code)
        /\ OccursOnlyInLonger(k2, pre.node.code)
    /\ PrefixLen = 5

\* C7: in replace_properties_dict every key that is an input or output
\* connector of the node is left out of the mapping applied to the code: the
\* native code is not renamed for it and the C++ code gets no binding for it,
\* while every other key is applied (renamed, or bound once if tokenized).
C7_ConnectorsShadow ==
    (call.op = "replace_properties_dict" /\ pre.node.lang \in {"Python", "CPP"}) =>
        LET old == pre.node.code
            new == graph.node.code
            conns == pre.node.in_connectors \cup pre.node.out_connectors
            applied == DOMAIN call.repl \ conns
        IN IF pre.node.lang = "Python"
           THEN /\ Len(new) = Len(old)
                /\ \A i \in 1..Len(old) :
                    new[i] = IF old[i].t = "id" /\ old[i].n \in applied
                             THEN Id(call.repl[old[i].n]) ELSE old[i]
           ELSE /\ SubSeq(new, PrefixLen + 1, Len(new)) = old
                /\ \A j \in BindingStarts : new[j + 1].n \notin conns
                /\ \A k \in applied :
                    Cardinality({j \in BindingStarts : BindingAt(j) = BindingOf(k, call.repl[k])})
                        = IF OccursAsToken(k, old) THEN 1 ELSE 0

\* C7 witness: replace_properties_dict on a C++ tasklet whose code mentions
\* both keys of the mapping, one of them an output connector: only the other
\* one was bound.
C7_Witness ==
    /\ CppCall("replace_properties_dict")
    /\ \E k1, k2 \in DOMAIN call.repl :
        /\ k1 \in pre.node.out_connectors
        /\ k2 \notin pre.node.in_connectors \cup pre.node.out_connectors
        /\ OccursAsToken(k1, pre.node.code)
        /\ OccursAsToken(k2, pre.node.code)
    /\ PrefixLen = 5

\* C8: for a non-empty string code block of a language that is neither the
\* native dialect nor C++, replace_in_codeblock leaves the code unchanged,
\* reports the refusal as a warning, and completes without an exception, for
\* every mapping.
C8_RefusalIsWarned ==
    (call.op = "replace_in_codeblock" /\ pre.node.lang \notin {"Python", "CPP", "None"}
        /\ pre.node.code # <<>>) =>
        /\ graph.node.code = pre.node.code
        /\ warned
        /\ exc = "none"

\* ------------------------------------------------------ claims on replace_dict
\* Whether the name k occurs in an expression or a range, on its own or as the
\* object of a member access k.f.
Mentions(k, e) == \E i \in 1..Len(e) : e[i].base = k
RangeMentions(k, r) == \E i \in 1..Len(r) : \E j \in 1..Len(r[i].elts) : Mentions(k, r[i].elts[j])
Undotted(e) == \A i \in 1..Len(e) : e[i].suf = <<>>
RangeUndotted(r) == \A i \in 1..Len(r) : \A j \in 1..Len(r[i].elts) : Undotted(r[i].elts[j])

\* The simultaneous substitution: every atom becomes the image of its own
\* original name and nothing is replaced twice.
Simultaneous(e, m) ==
    [i \in 1..Len(e) |->
        IF e[i].base \in DOMAIN m THEN [base |-> m[e[i].base], suf |-> e[i].suf] ELSE e[i]]
RangeSimultaneous(r, m) ==
    [i \in 1..Len(r) |->
        [tuple |-> r[i].tuple,
         elts |-> [j \in 1..Len(r[i].elts) |-> Simultaneous(r[i].elts[j], m)]]]

\* The keys of the last call that the mapping sends elsewhere and that no
\* entry of the mapping brings back.
RemovedKeys ==
    {k \in DOMAIN call.repl : call.repl[k] # k /\ \A j \in DOMAIN call.repl : call.repl[j] # k}

\* C1: after replace_dict(subgraph, repl), for every key old that the mapping
\* replaces by something else (and that no replacement mentions), no symbolic
\* property, data name, range, symbol-mapping value or memlet field (data,
\* subset, other_subset, volume) still refers to old; old may remain only in
\* embedded code, where it is a connector of the node or is shadowed by a
\* prepended binding (code of a dialect that substitution refuses is not
\* judged here).
C1_NoReferenceRemains ==
    call.op = "replace_dict" =>
        \A old \in RemovedKeys :
            /\ ~Mentions(old, graph.node.sym)
            /\ graph.node.data.base # old
            /\ ~RangeMentions(old, graph.node.range)
            /\ \A i \in 1..Len(graph.node.symbol_mapping) : ~Mentions(old, graph.node.symbol_mapping[i])
            /\ graph.edge.data.base # old
            /\ ~RangeMentions(old, graph.edge.subset)
            /\ ~RangeMentions(old, graph.edge.other_subset)
            /\ ~Mentions(old, graph.edge.volume)
            /\ (graph.node.lang \in {"Python", "CPP"} /\ OccursAsToken(old, graph.node.code)) =>
                    \/ old \in graph.node.in_connectors \cup graph.node.out_connectors
                    \/ /\ graph.node.lang = "CPP"
                       /\ \E j \in BindingStarts : graph.node.code[j + 1] = Id(old)

\* C2: substitution into symbolic expressions is simultaneous: a symbolic
\* property, the elements of a range and the subset and volume of a memlet
\* come out of replace_dict with every free variable replaced by the image of
\* its original name, so that {a: b, b: a} swaps a and b and nothing is
\* replaced twice.  (Stated for expressions without member accesses.)
C2_SimultaneousSubstitution ==
    (call.op = "replace_dict" /\ exc = "none") =>
        /\ (pre.node.sym # NoExpr /\ Undotted(pre.node.sym)) =>
                graph.node.sym = Simultaneous(pre.node.sym, call.repl)
        /\ RangeUndotted(pre.node.range) =>
                graph.node.range = RangeSimultaneous(pre.node.range, call.repl)
        /\ RangeUndotted(pre.edge.subset) =>
                graph.edge.subset = RangeSimultaneous(pre.edge.subset, call.repl)
        /\ Undotted(pre.edge.volume) =>
                graph.edge.volume = Simultaneous(pre.edge.volume, call.repl)

\* C3: substituting {n: n} leaves every node property (code text and the
\* tasklet's ignored symbols included) and every memlet field unchanged,
\* whether issued as replace(subgraph, n, n) or as the entries of a
\* replace_dict mapping.
C3_IdentityIsNoOp ==
    (call.op \in {"replace", "replace_dict"} /\ \A k \in DOMAIN call.repl : call.repl[k] = k) =>
        graph = pre

\* C9: under replace_dict with {x: y} a data-name property or memlet data name
\* equal to x becomes y, a dotted name x.f1...fk becomes y.f1...fk with the
\* suffix kept, and every other name is unchanged.
RenamedData(d, m) == IF d.base \in DOMAIN m THEN [base |-> m[d.base], suf |-> d.suf] ELSE d
C9_DottedDataNames ==
    (call.op = "replace_dict" /\ Cardinality(DOMAIN call.repl) = 1 /\ exc = "none") =>
        /\ graph.node.data = RenamedData(pre.node.data, call.repl)
        /\ graph.edge.data = RenamedData(pre.edge.data, call.repl)

\* ------------------------------------------------- replace_datadesc_names
\* The SDFG: arrays maps a name to its descriptor and constants_prop a name to
\* its constant (both named after the key they start under); regions are the
\* control-flow regions all_control_flow_regions() yields, the root first.
\* A region holds its states (the data of the access nodes and of the
\* memlets), the names its interstate edges refer to and the names of its
\* meta accesses (a loop or branch condition).
WithoutKey(f, k) == [j \in DOMAIN f \ {k} |-> f[j]]
WithKey(f, k, v) == [j \in DOMAIN f \cup {k} |-> IF j = k THEN v ELSE f[j]]

\* (mutant) only a data name equal to a key is renamed; a member access of a
\* renamed structure keeps the old name
RenameDataExactOnly(d, repl) ==
    IF d.suf = <<>> /\ d.base \in DOMAIN repl THEN Plain(repl[d.base]) ELSE d

\* The renaming of node.data and of edge.data.data in replace_datadesc_names:
\* a name that is a key, or else a dotted name whose first part is a key.
RenameData(d, repl) ==
    IF d.suf = <<>> /\ d.base \in DOMAIN repl THEN Plain(repl[d.base])
    ELSE IF d.suf # <<>> /\ d.base \in DOMAIN repl THEN [base |-> repl[d.base], suf |-> d.suf]
    ELSE d

\* InterstateEdge.replace_dict(repl, replace_keys=False) and
\* replace_meta_accesses(repl) on the names an edge or a condition refers to
RenameRefs(refs, repl) ==
    [i \in 1..Len(refs) |-> IF refs[i] \in DOMAIN repl THEN repl[refs[i]] ELSE refs[i]]

\* The loop over list(sdfg.arrays.items()), the snapshot in the order `items`
\* (only the keys of repl do anything): the descriptor moves to the new key,
\* and so does the constant of the same name.
RECURSIVE ArraysLoop(_, _, _, _)
ArraysLoop(arrays, consts, items, repl) ==
    IF items = <<>> THEN [arrays |-> arrays, constants_prop |-> consts]
    ELSE LET aname == Head(items).name
             aval == Head(items).val
             moved == WithKey(WithoutKey(arrays, aname), repl[aname], aval)
         IN ArraysLoop(moved,
                       IF aname \in DOMAIN consts
                       THEN WithoutKey(WithKey(consts, repl[aname], consts[aname]), aname)
                       ELSE consts,
                       Tail(items), repl)

\* The loop body over the blocks of a region: the access nodes, then the
\* memlets (a memlet whose data is None is skipped).
RenameState(st, repl) ==
    [nodes |-> [i \in 1..Len(st.nodes) |-> RenameData(st.nodes[i], repl)],
     memlets |-> [i \in 1..Len(st.memlets) |->
                    IF st.memlets[i] = NoData THEN NoData ELSE RenameData(st.memlets[i], repl)]]

\* The loop body over the control-flow regions
RenameRegion(cf, repl) ==
    [states |-> [i \in 1..Len(cf.states) |-> RenameState(cf.states[i], repl)],
     edges |-> RenameRefs(cf.edges, repl),
     meta |-> RenameRefs(cf.meta, repl)]

\* replace_datadesc_names(sdfg, repl), `order` the order of the snapshot's
\* keys that are keys of repl
ReplaceDatadescNames(g, repl, order) ==
    LET t == ArraysLoop(g.arrays, g.constants_prop,
                        [i \in 1..Len(order) |-> [name |-> order[i], val |-> g.arrays[order[i]]]], repl)
    IN [arrays |-> t.arrays,
        constants_prop |-> t.constants_prop,
        regions |-> [i \in 1..Len(g.regions) |-> RenameRegion(g.regions[i], repl)]]

\* The SDFGs the calls start from: any descriptor table over the names, no
\* constant or one, and a root region with a nested loop region, whose states
\* refer to the names d1 and d2.
Identity(S) == [k \in S |-> k]
Skeleton(d1, d2, m) ==
    <<[states |-> <<[nodes |-> <<d1>>, memlets |-> <<d2>>]>>, edges |-> <<d1.base>>, meta |-> <<>>],
      [states |-> <<[nodes |-> <<d2>>, memlets |-> <<m>>]>>, edges |-> <<>>, meta |-> <<d2.base>>]>>
Sdfgs ==
    {[arrays |-> Identity(A), constants_prop |-> Identity(C), regions |-> Skeleton(d1, d2, m)]
        : A \in SUBSET Names, C \in {{}, {1}, {2}}, d1 \in DottedNames, d2 \in DottedNames,
          m \in {NoData, [base |-> 1, suf |-> <<"f">>]}}

InitDatadesc ==
    /\ sdfg \in Sdfgs
    /\ graph = [node |-> DefaultNode, edge |-> DefaultMemlet]
    /\ cfg = IdleCfg
    /\ xf = IdleXf
    /\ pre = sdfg
    /\ call = NoCall
    /\ exc = "none"
    /\ warned = FALSE
    /\ ncalls = 0

\* A call of replace_datadesc_names(sdfg, repl)
DoReplaceDatadescNames ==
    /\ ncalls = 0
    /\ \E repl \in Repls : \E order \in Orders(DOMAIN sdfg.arrays \cap DOMAIN repl) :
        /\ sdfg' = ReplaceDatadescNames(sdfg, repl, order)
        /\ call' = [op |-> "replace_datadesc_names", repl |-> repl, order |-> order, node |-> FALSE]
    /\ exc' = "none"
    /\ warned' = FALSE
    /\ pre' = sdfg
    /\ ncalls' = ncalls + 1
    /\ UNCHANGED <<graph, cfg, xf>>

NextDatadesc == DoReplaceDatadescNames

SpecDatadesc == InitDatadesc /\ [][NextDatadesc]_vars

\* ------------------------------------------- claims on replace_datadesc_names
\* The last call was replace_datadesc_names(sdfg, {x: y}).
RenameCall(x, y) ==
    /\ call.op = "replace_datadesc_names"
    /\ DOMAIN call.repl = {x}
    /\ call.repl[x] = y

\* What the claim expects of a data name: x becomes y, x.suffix becomes
\* y.suffix, every other name stays.
Expected(d, x, y) == IF d.base = x THEN [base |-> y, suf |-> d.suf] ELSE d
ExpectedRef(n, x, y) == IF n = x THEN y ELSE n

\* C4: replace_datadesc_names(sdfg, {x: y}) with y absent from the descriptor
\* table binds y to the descriptor formerly under x and drops the key x (the
\* constant of x moves likewise), leaves the other descriptors alone, renames
\* in every state of every region (nested ones too) each access node and
\* memlet x to y and x.suffix to y.suffix, makes interstate edges and meta
\* accesses refer to y instead of x, and leaves every other name unchanged.
C4_RenameUpdatesEverything ==
    \A x \in Names, y \in Names :
        (RenameCall(x, y) /\ y \notin DOMAIN pre.arrays) =>
            /\ x \in DOMAIN pre.arrays =>
                /\ DOMAIN sdfg.arrays = (DOMAIN pre.arrays \ {x}) \cup {y}
                /\ sdfg.arrays[y] = pre.arrays[x]
                /\ \A k \in DOMAIN pre.arrays \ {x} : sdfg.arrays[k] = pre.arrays[k]
                /\ x \in DOMAIN pre.constants_prop =>
                    /\ x \notin DOMAIN sdfg.constants_prop
                    /\ y \in DOMAIN sdfg.constants_prop
                    /\ sdfg.constants_prop[y] = pre.constants_prop[x]
            /\ Len(sdfg.regions) = Len(pre.regions)
            /\ \A r \in 1..Len(pre.regions) :
                LET old == pre.regions[r]
                    new == sdfg.regions[r]
                IN /\ Len(new.states) = Len(old.states)
                   /\ \A s \in 1..Len(old.states) :
                        /\ Len(new.states[s].nodes) = Len(old.states[s].nodes)
                        /\ Len(new.states[s].memlets) = Len(old.states[s].memlets)
                        /\ \A i \in 1..Len(old.states[s].nodes) :
                            new.states[s].nodes[i] = Expected(old.states[s].nodes[i], x, y)
                        /\ \A i \in 1..Len(old.states[s].memlets) :
                            new.states[s].memlets[i] = Expected(old.states[s].memlets[i], x, y)
                   /\ new.edges = [i \in 1..Len(old.edges) |-> ExpectedRef(old.edges[i], x, y)]
                   /\ new.meta = [i \in 1..Len(old.meta) |-> ExpectedRef(old.meta[i], x, y)]

\* C4 witness: x had a descriptor and a constant, y had none; the root state
\* held the access node x, the nested region a memlet x.f and another name,
\* and the call renamed them.
C4_Witness ==
    \E x \in Names, y \in Names :
        /\ RenameCall(x, y)
        /\ x \in DOMAIN pre.arrays
        /\ x \in DOMAIN pre.constants_prop
        /\ y \notin DOMAIN pre.arrays
        /\ pre.regions[1].states[1].nodes[1] = Plain(x)
        /\ pre.regions[2].states[1].memlets[1] = [base |-> x, suf |-> <<"f">>]
        /\ pre.regions[2].states[1].nodes[1].base \notin {x, y}
        /\ sdfg.regions[1].states[1].nodes[1] = Plain(y)
        /\ sdfg.regions[2].states[1].memlets[1] = [base |-> y, suf |-> <<"f">>]
        /\ y \in DOMAIN sdfg.arrays

\* C5: replace_datadesc_names(sdfg, {x: y}) with y already a key of the
\* descriptor table fails and mutates nothing: descriptor table, constant
\* table, access nodes and memlets are as before the call.
C5_ExistingTargetFails ==
    \A x \in Names, y \in Names :
        (RenameCall(x, y) /\ x # y /\ x \in DOMAIN pre.arrays /\ y \in DOMAIN pre.arrays) =>
            /\ exc # "none"
            /\ sdfg = pre

\* ------------------------------------------------------- ConstSymbolToMap
\* The SDFG seen by the transformation: the names of its arrays, the free
\* symbols of each of its three states, and its interstate edges with their
\* assignments symbol -> expression.  An assigned expression is an array
\* access "A[...]", a bare name "A", or anything else.
Syms == 1..NumSyms
Blocks == {1, 2, 3}
Instances == {"t1", "t2"}
Access(a) == [kind |-> "access", data |-> a]
Bare(a) == [kind |-> "name", data |-> a]
Other == [kind |-> "expr", data |-> 0]
AssignValues == {Access(1), Access(2), Bare(1), Other}
Assignments == UNION {[K -> AssignValues] : K \in SUBSET Syms}

\* Memlet(v): whether the expression parses as a memlet (SyntaxError
\* otherwise), and the memlet: its data and whether it has a subset.
ParsesAsMemlet(v) == v.kind \in {"access", "name"}
MemletOf(v) == [data |-> v.data, subset |-> IF v.kind = "access" THEN "range" ELSE "None"]

\* graph.out_edges(block), as the indices of the edges
OutEdges(g, b) == {i \in 1..Len(g.edges) : g.edges[i].src = b}

\* The first out-edge of symbol_state that leads to compute_state.
SymbolEdge(g, s, c) ==
    CHOOSE i \in OutEdges(g, s) :
        /\ g.edges[i].dst = c
        /\ \A j \in OutEdges(g, s) : g.edges[j].dst = c => i <= j

\* The loop of can_be_applied over the assignments of the edge e: the symbols
\* it stores into map_symbols, with their memlets.
FoundSymbols(g, e, c) ==
    LET a == g.edges[e].assignments
        found == {k \in DOMAIN a :
                    /\ k \in g.free_symbols[c]
                    /\ ParsesAsMemlet(a[k])
                    /\ MemletOf(a[k]).subset # "None"
                    /\ MemletOf(a[k]).data \in g.arrays}
    IN [k \in found |-> MemletOf(a[k])]

\* ConstSymbolToMap.can_be_applied on the instance inst matched to
\* (symbol_state s, compute_state c): map_symbols is the dictionary of the
\* class, which every instance and every call stores into; symbol_edge is set
\* on the instance.
CanBeApplied(x, g, inst, s, c) ==
    IF OutEdges(g, c) # {}
    THEN [x EXCEPT !.ret = FALSE]
    ELSE LET e == SymbolEdge(g, s, c)
             found == FoundSymbols(g, e, c)
             ms == [k \in DOMAIN x.map_symbols \cup DOMAIN found |->
                        IF k \in DOMAIN found THEN found[k] ELSE x.map_symbols[k]]
         IN [map_symbols |-> ms,
             symbol_edge |-> [x.symbol_edge EXCEPT ![inst] = e],
             ret |-> DOMAIN ms # {}]

\* The matches of the pattern symbol_state -> compute_state
Matches(g) == {m \in Blocks \X Blocks : \E i \in 1..Len(g.edges) : g.edges[i].src = m[1] /\ g.edges[i].dst = m[2]}

\* The SDFGs: the states 1 -> 2 and then 1 -> 3 (a fork) or 2 -> 3 (a chain),
\* any assignments on the first edge and at most one on the second.
Cfgs ==
    {[arrays |-> A,
      free_symbols |-> <<{}, F, Syms>>,
      edges |-> <<[src |-> 1, dst |-> 2, assignments |-> a1],
                  [src |-> from, dst |-> 3, assignments |-> a2]>>]
        : A \in {{1}, {1, 2}}, F \in {{1}, Syms}, from \in {1, 2}, a1 \in Assignments,
          a2 \in {a \in Assignments : Cardinality(DOMAIN a) <= 1}}

InitConstSym ==
    /\ cfg \in Cfgs
    /\ xf = [map_symbols |-> <<>>, symbol_edge |-> [t \in Instances |-> 0], ret |-> FALSE]
    /\ graph = [node |-> DefaultNode, edge |-> DefaultMemlet]
    /\ sdfg = IdleSdfg
    /\ pre = cfg
    /\ call = NoCall
    /\ exc = "none"
    /\ warned = FALSE
    /\ ncalls = 0

\* A call of can_be_applied on one instance and one match
DoCanBeApplied ==
    /\ ncalls < MaxCalls
    /\ \E inst \in Instances : \E m \in Matches(cfg) :
        /\ xf' = CanBeApplied(xf, cfg, inst, m[1], m[2])
        /\ call' = [op |-> "can_be_applied", inst |-> inst, symbol_state |-> m[1], compute_state |-> m[2]]
    /\ pre' = cfg
    /\ exc' = "none"
    /\ warned' = FALSE
    /\ ncalls' = ncalls + 1
    /\ UNCHANGED <<graph, sdfg, cfg>>

NextConstSym == DoCanBeApplied

SpecConstSym == InitConstSym /\ [][NextConstSym]_vars

\* ----------------------------------------------- claims on ConstSymbolToMap
\* The assignments of the matched edge that qualify: the symbol is free in
\* the compute state and the expression is an array access with a subset into
\* an array of the descriptor table.
QualifyingSymbols(g, s, c) ==
    {k \in Syms : \E i \in 1..Len(g.edges) :
        /\ g.edges[i].src = s
        /\ g.edges[i].dst = c
        /\ k \in DOMAIN g.edges[i].assignments
        /\ k \in g.free_symbols[c]
        /\ g.edges[i].assignments[k].kind = "access"
        /\ g.edges[i].assignments[k].data \in g.arrays}
IsSink(g, c) == \A i \in 1..Len(g.edges) : g.edges[i].src # c

\* C10: in any sequence of can_be_applied calls, over any matches and
\* instances, a call returns true exactly if the compute state has no
\* outgoing edge and at least one assignment of the matched edge qualifies,
\* and the symbols recorded for apply are the qualifying ones of this match:
\* neither depends on earlier calls.
C10_GuardDependsOnMatchOnly ==
    call.op = "can_be_applied" =>
        LET q == QualifyingSymbols(cfg, call.symbol_state, call.compute_state) IN
        /\ xf.ret = (IsSink(cfg, call.compute_state) /\ q # {})
        /\ xf.ret => DOMAIN xf.map_symbols = q

\* ------------------------------------------------- ConstSymbolToMap.apply
\* The dataflow of a state: its nodes in the order they were added, its edges
\* and the maps built in it.  A node is an access node (with the name of its
\* data), a tasklet, or the entry or exit of the map numbered `map`; only an
\* access node has the attribute `data`.
AccessNode(d) == [kind |-> "AccessNode", data |-> d, map |-> 0]
TaskletNode == [kind |-> "Tasklet", data |-> 0, map |-> 0]
MapEntry(k) == [kind |-> "MapEntry", data |-> 0, map |-> k]
MapExit(k) == [kind |-> "MapExit", data |-> 0, map |-> k]
HasData(n) == n.kind = "AccessNode"

\* Connectors: none, a named connector of a tasklet or of a map, or the
\* connector data_count that apply creates on the map entry.
Conn(name) == [name |-> name, data |-> 0, n |-> 0]
NoConn == Conn("None")
ConnectorName(d, count) == [name |-> "dyn", data |-> d, n |-> count]
WholeMemlet(d) == [data |-> d, subset |-> "all"]
Edge(src, src_conn, dst, dst_conn, data) ==
    [src |-> src, src_conn |-> src_conn, dst |-> dst, dst_conn |-> dst_conn, data |-> data]
EmptyDataflow == [nodes |-> <<>>, edges |-> {}, maps |-> <<>>]

\* state.source_nodes(), state.sink_nodes(): the nodes without in-edges and
\* without out-edges, in the order of the nodes of the state.
SourceNodes(st) == SelectSeq([i \in 1..Len(st.nodes) |-> i], LAMBDA n : \A e \in st.edges : e.dst # n)
SinkNodes(st) == SelectSeq([i \in 1..Len(st.nodes) |-> i], LAMBDA n : \A e \in st.edges : e.src # n)

\* state.add_memlet_path(e.src, m, e.dst, ...): an edge from e.src to the map
\* node and one from the map node to e.dst, with the connectors and the memlet
\* of e at the two ends.
MemletPath(e, m) ==
    {Edge(e.src, e.src_conn, m, Conn("IN"), e.data),
     Edge(m, Conn("OUT"), e.dst, e.dst_conn, e.data)}

\* reroute_edge_through_map(state, e, m), m being the node numbered m, which
\* add_memlet_path adds to the state if it is not yet in it.
RerouteEdgeThroughMap(st, e, m, node) ==
    [st EXCEPT !.nodes = IF m > Len(st.nodes) THEN Append(st.nodes, node) ELSE st.nodes,
               !.edges = (st.edges \ {e}) \cup MemletPath(e, m)]

\* The first loop of apply (lines 64-88) from its i-th symbol on, in the
\* order of the dictionary map_symbols: per symbol a connector named after
\* the array and its occurrence counter, the first source access node of the
\* array or else a new one, an edge from it to the map entry carrying the
\* memlet of the assignment, and the symbol and the connector appended to the
\* parameters and to the range of the map.  acc holds the state, id_table and
\* the number of the map entry node (0 until add_edge adds it).
RECURSIVE MapSymbolsLoop(_, _, _, _)
MapSymbolsLoop(acc, ms, order, i) ==
    IF i > Len(order) THEN acc
    ELSE
        LET sym == order[i]
            m == ms[sym]
            st == acc.st
            count == IF m.data \in DOMAIN acc.id_table THEN acc.id_table[m.data] + 1 ELSE 1
            id_table == [d \in DOMAIN acc.id_table \cup {m.data} |->
                            IF d = m.data THEN count ELSE acc.id_table[d]]
            connector_name == ConnectorName(m.data, count)
            IsSourceOf(n) == HasData(st.nodes[n]) /\ st.nodes[n].data = m.data
            found == SelectSeq(SourceNodes(st), IsSourceOf)
            nodes1 == IF found = <<>> THEN Append(st.nodes, AccessNode(m.data)) ELSE st.nodes
            access_node == IF found = <<>> THEN Len(nodes1) ELSE Head(found)
            k == Len(st.maps)
            nodes2 == IF acc.me = 0 THEN Append(nodes1, MapEntry(k)) ELSE nodes1
            me == IF acc.me = 0 THEN Len(nodes2) ELSE acc.me
            map == [st.maps[k] EXCEPT !.params = Append(@, sym),
                                      !.range = Append(@, connector_name)]
        IN MapSymbolsLoop(
               [st |-> [nodes |-> nodes2,
                        edges |-> st.edges \cup {Edge(access_node, NoConn, me, connector_name, m)},
                        maps |-> [st.maps EXCEPT ![k] = map]],
                id_table |-> id_table,
                me |-> me],
               ms, order, i + 1)

\* The inner loops of lines 94-96 and 102-104: every edge of the set es is
\* rerouted through the map node m.
RECURSIVE RerouteEach(_, _, _, _)
RerouteEach(st, es, m, node) ==
    IF es = {} THEN st
    ELSE LET e == CHOOSE x \in es : TRUE
         IN RerouteEach(RerouteEdgeThroughMap(st, e, m, node), es \ {e}, m, node)

\* The loop over the source nodes (lines 91-96) from the i-th one on: reading
\* n.data of a node that is not an access node raises AttributeError; the
\* edges leaving an access node whose array is not in id_table go through
\* the map entry.
RECURSIVE RerouteSources(_, _, _, _, _)
RerouteSources(r, list, i, id_table, me) ==
    IF i > Len(list) \/ r.exc # "none" THEN r
    ELSE
        LET n == list[i]
            node == r.st.nodes[n]
        IN IF ~HasData(node) THEN [r EXCEPT !.exc = "AttributeError"]
           ELSE IF node.data \in DOMAIN id_table THEN RerouteSources(r, list, i + 1, id_table, me)
           ELSE RerouteSources(
                    [r EXCEPT !.st = RerouteEach(r.st, {e \in r.st.edges : e.src = n}, me, r.st.nodes[me])],
                    list, i + 1, id_table, me)

\* The loop over the sink nodes (lines 99-104), likewise, through the map
\* exit, which joins the state with the first edge rerouted through it.
RECURSIVE RerouteSinks(_, _, _, _, _)
RerouteSinks(r, list, i, id_table, mx) ==
    IF i > Len(list) \/ r.exc # "none" THEN r
    ELSE
        LET n == list[i]
            node == r.st.nodes[n]
            es == {e \in r.st.edges : e.dst = n}
            mxnode == IF mx = 0 THEN Len(r.st.nodes) + 1 ELSE mx
        IN IF ~HasData(node) THEN [r EXCEPT !.exc = "AttributeError"]
           ELSE IF node.data \in DOMAIN id_table \/ es = {}
                THEN RerouteSinks(r, list, i + 1, id_table, mx)
           ELSE RerouteSinks(
                    [r EXCEPT !.st = RerouteEach(r.st, es, mxnode, MapExit(Len(r.st.maps)))],
                    list, i + 1, id_table, mxnode)

\* The last loop (lines 107-110) from the i-th symbol on: the assignment is
\* popped from the symbol edge (KeyError if the edge does not assign the
\* symbol) and the symbol, if declared, is removed from the SDFG.
RECURSIVE RemoveAssignments(_, _, _, _)
RemoveAssignments(r, order, i, e) ==
    IF i > Len(order) \/ r.exc # "none" THEN r
    ELSE
        LET sym == order[i]
            a == r.g.edges[e].assignments
        IN IF sym \notin DOMAIN a THEN [r EXCEPT !.exc = "KeyError"]
           ELSE RemoveAssignments(
                    [r EXCEPT !.g.edges[e].assignments = [k \in DOMAIN a \ {sym} |-> a[k]],
                              !.g.symbols = @ \ {sym}],
                    order, i + 1, e)

\* ConstSymbolToMap.apply on the instance inst, matched to the compute state
\* c, with map_symbols iterated in the given order: the SDFG it leaves and
\* the exception it ends with.  The parameters of the new map are no longer
\* free symbols of the state.
Apply(x, g, inst, c, order) ==
    LET st0 == [g.states[c] EXCEPT !.maps = Append(@, [label |-> c, params |-> <<>>, range |-> <<>>])]
        acc == MapSymbolsLoop([st |-> st0, id_table |-> <<>>, me |-> 0], x.map_symbols, order, 1)
        k == Len(acc.st.maps)
        bound == {acc.st.maps[k].params[j] : j \in 1..Len(acc.st.maps[k].params)}
        srcs == RerouteSources([st |-> acc.st, exc |-> "none"], SourceNodes(acc.st), 1,
                               acc.id_table, acc.me)
        sinks == RerouteSinks(srcs, SinkNodes(srcs.st), 1, acc.id_table, 0)
        g1 == [g EXCEPT !.states[c] = sinks.st, !.free_symbols[c] = @ \ bound]
    IN RemoveAssignments([g |-> g1, exc |-> sinks.exc], order, 1, x.symbol_edge[inst])

\* The SDFGs apply is run on: the states and edges of Cfgs over the arrays 1
\* and 2, the declared symbols, and in each of the states 2 and 3 either an
\* access node read by a tasklet that writes an access node, or a tasklet
\* without inputs that writes an access node.
ReadCompute(a, b) ==
    [nodes |-> <<AccessNode(a), TaskletNode, AccessNode(b)>>,
     edges |-> {Edge(1, NoConn, 2, Conn("inp"), WholeMemlet(a)),
                Edge(2, Conn("out"), 3, NoConn, WholeMemlet(b))},
     maps |-> <<>>]
ComputeOnly(b) ==
    [nodes |-> <<TaskletNode, AccessNode(b)>>,
     edges |-> {Edge(1, Conn("out"), 2, NoConn, WholeMemlet(b))},
     maps |-> <<>>]
ApplyArrays == {1, 2}
ApplyAssignValues == {Access(1), Access(2), Other}
ApplyAssignments == UNION {[K -> ApplyAssignValues] : K \in SUBSET Syms}
ApplyCfgs ==
    {[arrays |-> ApplyArrays,
      free_symbols |-> <<{}, F, Syms>>,
      edges |-> <<[src |-> 1, dst |-> 2, assignments |-> a1],
                  [src |-> from, dst |-> 3, assignments |-> a2]>>,
      symbols |-> S,
      states |-> <<EmptyDataflow, d2, d3>>]
        : F \in {{1}, Syms}, from \in {1, 2}, a1 \in ApplyAssignments,
          a2 \in {a \in ApplyAssignments : Cardinality(DOMAIN a) <= 1},
          S \in {{}, Syms},
          d2 \in {ReadCompute(1, 2), ReadCompute(2, 2), ComputeOnly(2)},
          d3 \in {ReadCompute(a, b) : a \in ApplyArrays, b \in ApplyArrays} \cup {ComputeOnly(2)}}

InitApply ==
    /\ cfg \in ApplyCfgs
    /\ xf = [map_symbols |-> <<>>, symbol_edge |-> [t \in Instances |-> 0], ret |-> FALSE]
    /\ graph = [node |-> DefaultNode, edge |-> DefaultMemlet]
    /\ sdfg = IdleSdfg
    /\ pre = cfg
    /\ call = NoCall
    /\ exc = "none"
    /\ warned = FALSE
    /\ ncalls = 0

\* The pattern matcher calls can_be_applied on a match; a match the guard
\* accepted is applied before the next one is tried.
Accepted == call.op = "can_be_applied" /\ xf.ret
DoMatch ==
    /\ ncalls < MaxApplyCalls
    /\ ~Accepted
    /\ \E inst \in Instances : \E m \in Matches(cfg) :
        /\ xf' = CanBeApplied(xf, cfg, inst, m[1], m[2])
        /\ call' = [op |-> "can_be_applied", inst |-> inst, symbol_state |-> m[1], compute_state |-> m[2]]
    /\ pre' = cfg
    /\ exc' = "none"
    /\ warned' = FALSE
    /\ ncalls' = ncalls + 1
    /\ UNCHANGED <<graph, sdfg, cfg>>

\* apply on the accepted match; map_symbols is left as it is.
DoApply ==
    /\ ncalls < MaxApplyCalls
    /\ Accepted
    /\ \E order \in Orders(DOMAIN xf.map_symbols) :
        LET r == Apply(xf, cfg, call.inst, call.compute_state, order) IN
        /\ cfg' = r.g
        /\ exc' = r.exc
    /\ call' = [call EXCEPT !.op = "apply"]
    /\ pre' = cfg
    /\ warned' = FALSE
    /\ ncalls' = ncalls + 1
    /\ UNCHANGED <<graph, sdfg, xf>>

NextApply == DoMatch \/ DoApply

SpecApply == InitApply /\ [][NextApply]_vars

\* ------------------------------------------ claims on ConstSymbolToMap.apply
Applied == call.op = "apply"
MatchedEdge(g) == SymbolEdge(g, call.symbol_state, call.compute_state)
NewMap == cfg.states[call.compute_state].maps[Len(cfg.states[call.compute_state].maps)]
MapParams == {NewMap.params[j] : j \in 1..Len(NewMap.params)}

\* C11: after apply the compute state holds exactly one more map; its
\* parameters are the symbols of the matched edge that qualified in the guard,
\* each once; and the range of each parameter is the connector of the map
\* entry that is fed by the memlet of that symbol's assignment expression.
C11_MapOfQualifyingSymbols ==
    Applied =>
        LET c == call.compute_state
            q == QualifyingSymbols(pre, call.symbol_state, c)
            a == pre.edges[MatchedEdge(pre)].assignments
        IN /\ Len(cfg.states[c].maps) = Len(pre.states[c].maps) + 1
           /\ MapParams = q
           /\ Len(NewMap.params) = Cardinality(q)
           /\ Len(NewMap.range) = Len(NewMap.params)
           /\ \A j \in 1..Len(NewMap.params) :
                \E e \in cfg.states[c].edges :
                    /\ cfg.states[c].nodes[e.dst].kind = "MapEntry"
                    /\ e.dst_conn = NewMap.range[j]
                    /\ NewMap.params[j] \in DOMAIN a
                    /\ e.data = MemletOf(a[NewMap.params[j]])

\* Whether every path from the start state to the state b assigns the symbol
\* k on one of its interstate edges (the states are numbered along the edges).
RECURSIVE AssignedBefore(_, _, _)
AssignedBefore(g, k, b) ==
    LET ins == {i \in 1..Len(g.edges) : g.edges[i].dst = b}
    IN /\ ins # {}
       /\ \A i \in ins : k \in DOMAIN g.edges[i].assignments \/ AssignedBefore(g, k, g.edges[i].src)

\* sdfg.free_symbols: the symbols a state uses that are not bound by an
\* interstate assignment on the way to it.
SdfgFreeSymbols(g) ==
    {k \in Syms : \E b \in Blocks : k \in g.free_symbols[b] /\ ~AssignedBefore(g, k, b)}

\* sdfg.arglist(): the non-transient arrays, then the free symbols.
Arglist(g) == [arrays |-> g.arrays, symbols |-> SdfgFreeSymbols(g)]

\* C12: apply leaves the parameter list of the SDFG, its arrays and its free
\* symbols, as it was before the call: no folded symbol becomes a parameter
\* and no parameter is lost.
C12_ArglistUnchanged ==
    Applied => Arglist(cfg) = Arglist(pre)

\* Whether a state still uses the symbol or an interstate edge still assigns it
Referenced(g, k) ==
    \/ \E b \in Blocks : k \in g.free_symbols[b]
    \/ \E i \in 1..Len(g.edges) : k \in DOMAIN g.edges[i].assignments

\* C17: after an apply that completed, the matched edge no longer assigns a
\* folded symbol and assigns every other symbol as before; a declared symbol
\* that was folded is undeclared exactly if nothing in the SDFG refers to it
\* any more, and the other declarations are kept.
C17_FoldedAssignmentsRemoved ==
    (Applied /\ exc = "none") =>
        LET before == pre.edges[MatchedEdge(pre)].assignments
            after == cfg.edges[MatchedEdge(pre)].assignments
        IN /\ DOMAIN after = DOMAIN before \ MapParams
           /\ \A k \in DOMAIN after : after[k] = before[k]
           /\ \A k \in pre.symbols \ MapParams : k \in cfg.symbols
           /\ \A k \in pre.symbols \cap MapParams : (k \in cfg.symbols) <=> Referenced(cfg, k)

\* The numbers of the entry node of the new map and of its exit node (0 if
\* the state has none), and the access nodes that feed the folded symbols.
NodeOfKind(st, kind) ==
    LET found == {n \in 1..Len(st.nodes) : st.nodes[n].kind = kind /\ st.nodes[n].map = Len(st.maps)}
    IN IF found = {} THEN 0 ELSE CHOOSE n \in found : TRUE
Feeding(st) == {e.src : e \in {x \in st.edges : x.dst = NodeOfKind(st, "MapEntry") /\ x.dst_conn.name = "dyn"}}
ToSet(seq) == {seq[i] : i \in 1..Len(seq)}

\* C18: apply on an accepted match completes, and then every edge that left
\* a source node of the compute state, the access nodes feeding the folded
\* symbols aside, has been replaced by an edge from its source into the map
\* entry (same source connector and memlet), and every edge that entered a
\* sink node, those aside, by an edge from the map exit into its destination
\* (same destination connector and memlet).
C18_SourcesAndSinksRerouted ==
    Applied =>
        LET was == pre.states[call.compute_state]
            now == cfg.states[call.compute_state]
            me == NodeOfKind(now, "MapEntry")
            mx == NodeOfKind(now, "MapExit")
        IN /\ exc = "none"
           /\ \A e \in was.edges :
                (e.src \in ToSet(SourceNodes(was)) \ Feeding(now)) =>
                    /\ e \notin now.edges
                    /\ \E x \in now.edges : x.src = e.src /\ x.src_conn = e.src_conn
                                             /\ x.dst = me /\ x.data = e.data
           /\ \A e \in was.edges :
                (e.dst \in ToSet(SinkNodes(was)) \ Feeding(now)) =>
                    /\ e \notin now.edges
                    /\ \E x \in now.edges : x.dst = e.dst /\ x.dst_conn = e.dst_conn
                                             /\ x.src = mx /\ x.data = e.data

\* ------------------------------------------------------- GPUTransformSDFG
\* Data names: the arrays of the SDFG are base_1 .. base_NumData; add_datadesc
\* with find_new_name makes gpu_base, gpu_base_0, ... and host_base, ...
DataName(base, prefix, n) == [base |-> base, prefix |-> prefix, n |-> n]
Original(base) == DataName(base, "", 0)
DataBases == 1..NumData

\* A descriptor: an array or a scalar, its storage and whether it is transient
Desc(kind, storage, transient) == [kind |-> kind, storage |-> storage, transient |-> transient]
gpu_storage == {"GPU_Global", "GPU_Shared", "CPU_Pinned"}

\* sdfg.add_datadesc(prefix_base, desc, find_new_name=True): the name taken,
\* the first of prefix_base, prefix_base_0, ... that is free.
RECURSIVE FindNewName(_, _, _, _)
FindNewName(arrays, prefix, base, n) ==
    IF DataName(base, prefix, n) \notin DOMAIN arrays THEN DataName(base, prefix, n)
    ELSE FindNewName(arrays, prefix, base, n + 1)
AddDatadesc(arrays, name, desc) ==
    [k \in DOMAIN arrays \cup {name} |-> IF k = name THEN desc ELSE arrays[k]]

\* A write (an in-edge of an access node): whether its destination subset is
\* the full range of the array, and the edges of its memlet tree, each with
\* its dynamic flag, its volume and the number of elements of its subset.
TreeEdge(dynamic, volume) == [dynamic |-> dynamic, volume |-> volume, size |-> NumElements]
Write(full, tree) == [full |-> full, tree |-> tree]
FullWrite == Write(TRUE, <<TreeEdge(FALSE, NumElements)>>)
PartialWrite == Write(FALSE, <<TreeEdge(FALSE, 1)>>)

\* An access node of a state: its data, the data named by the memlets of its
\* edges, whether it has out-edges, whether one of them leads to a dynamic
\* range of a top-level map, and its in-edges.
GpuAccess(d, out, dyn, in_edges) ==
    [data |-> d, memlet |-> d, out |-> out, dyn |-> dyn, in_edges |-> in_edges]
\* A state: its access nodes (all at top level, read and written by top-level
\* maps) and the data of its edges with a write-conflict resolution.
GpuState(label, nodes, wcr) == [label |-> label, nodes |-> nodes, wcr |-> wcr]
\* An interstate edge: the arrays its condition and assignments read
GpuEdge(src, dst, syms) == [src |-> src, dst |-> dst, syms |-> syms]

\* Step 0 (lines 215-238): the names appended to input_nodes and output_nodes
\* by the nodes of a state from the i-th one on, then by its edges with a
\* write-conflict resolution.  `node.data not in input_nodes` compares a name
\* with (name, descriptor) pairs and is always true.
RECURSIVE ClassifyNodes(_, _, _, _)
ClassifyNodes(arrays, nodes, i, acc) ==
    IF i > Len(nodes) THEN acc
    ELSE
        LET node == nodes[i]
            nontransient == ~arrays[node.data].transient
            isInput == nontransient /\ node.out /\ ~node.dyn
            isOutput == nontransient /\ node.in_edges # <<>>
        IN ClassifyNodes(arrays, nodes, i + 1,
               [input_nodes |-> IF isInput THEN Append(acc.input_nodes, node.data) ELSE acc.input_nodes,
                output_nodes |-> IF isOutput THEN Append(acc.output_nodes, node.data) ELSE acc.output_nodes])

RECURSIVE ClassifyWcr(_, _, _)
ClassifyWcr(arrays, wcr, acc) ==
    IF wcr = {} THEN acc
    ELSE LET d == CHOOSE x \in wcr : TRUE
         IN ClassifyWcr(arrays, wcr \ {d},
                IF ~arrays[d].transient
                THEN [acc EXCEPT !.input_nodes = Append(@, d)]
                ELSE acc)

RECURSIVE ClassifyStates(_, _, _, _)
ClassifyStates(arrays, blocks, i, acc) ==
    IF i > Len(blocks) THEN acc
    ELSE ClassifyStates(arrays, blocks, i + 1,
             ClassifyWcr(arrays, blocks[i].wcr, ClassifyNodes(arrays, blocks[i].nodes, 1, acc)))

\* A scan that takes a write along a dynamic edge for a full one
TreeIsFullIgnoringDynamic(tree) ==
    \A j \in 1..Len(tree) : tree[j].volume % tree[j].size = 0
\* Lines 280-295: the scan for a full write to the array, in the order given:
\* the first in-edge whose destination subset is the full range and whose
\* memlet tree has no dynamic edge and no volume that is not a multiple of
\* the size ends the scan.
TreeIsFull(tree) ==
    \A j \in 1..Len(tree) : ~tree[j].dynamic /\ tree[j].volume % tree[j].size = 0
RECURSIVE FoundFullWrite(_, _)
FoundFullWrite(writes, i) ==
    IF i > Len(writes) THEN FALSE
    ELSE IF writes[i].full /\ TreeIsFull(writes[i].tree) THEN TRUE
    ELSE FoundFullWrite(writes, i + 1)

\* The in-edges of the access nodes of the array, state by state, node by
\* node, edge by edge.
RECURSIVE WritesOfNodes(_, _, _)
WritesOfNodes(nodes, d, i) ==
    IF i > Len(nodes) THEN <<>>
    ELSE (IF nodes[i].data = d THEN nodes[i].in_edges ELSE <<>>) \o WritesOfNodes(nodes, d, i + 1)
RECURSIVE WritesTo(_, _, _)
WritesTo(blocks, d, i) ==
    IF i > Len(blocks) THEN <<>>
    ELSE WritesOfNodes(blocks[i].nodes, d, 1) \o WritesTo(blocks, d, i + 1)

\* clone(): the shadow descriptor, in GPU global memory and transient
CloneDesc(desc) == [desc EXCEPT !.storage = "GPU_Global", !.transient = TRUE]
ToSeqSet(seq) == {seq[i] : i \in 1..Len(seq)}
NoHost == DataName(0, "None", 0)
Put(f, k, v) == [x \in DOMAIN f \cup {k} |-> IF x = k THEN v ELSE f[x]]

\* Lines 249-259: the loop over set(input_nodes).  acc holds sdfg.arrays,
\* cloned_arrays, data_already_on_gpu and input_nodes.
\* (First, a loop that does not look at the storage of the input.)
RECURSIVE CloneInputsAnyStorage(_, _)
CloneInputsAnyStorage(acc, todo) ==
    IF todo = {} THEN acc
    ELSE
        LET inodename == CHOOSE x \in todo : TRUE
            inode == acc.arrays[inodename]
            name == FindNewName(acc.arrays, "gpu", inodename.base, 0)
        IN CloneInputsAnyStorage(
               IF inode.kind = "Scalar" THEN acc
               ELSE [acc EXCEPT !.arrays = AddDatadesc(@, name, CloneDesc(inode)),
                                !.cloned_arrays = Put(@, inodename, name)],
               todo \ {inodename})
RECURSIVE CloneInputs(_, _)
CloneInputs(acc, todo) ==
    IF todo = {} THEN acc
    ELSE
        LET inodename == CHOOSE x \in todo : TRUE
            inode == acc.arrays[inodename]
            name == FindNewName(acc.arrays, "gpu", inodename.base, 0)
        IN CloneInputs(
               IF inode.storage = "GPU_Global"
               THEN [acc EXCEPT !.data_already_on_gpu = Put(@, inodename, NoHost)]
               ELSE IF inode.kind = "Scalar" THEN acc
               ELSE [acc EXCEPT !.arrays = AddDatadesc(@, name, CloneDesc(inode)),
                                !.cloned_arrays = Put(@, inodename, name)],
               todo \ {inodename})

\* Lines 261-299: the loop over set(output_nodes); an output that gets a
\* shadow and is not an input joins input_nodes unless a full write to it is
\* found.
RECURSIVE CloneOutputs(_, _, _)
CloneOutputs(acc, todo, blocks) ==
    IF todo = {} THEN acc
    ELSE
        LET onodename == CHOOSE x \in todo : TRUE
            onode == acc.arrays[onodename]
            name == FindNewName(acc.arrays, "gpu", onodename.base, 0)
            found_full_write == FoundFullWrite(WritesTo(blocks, onodename, 1), 1)
        IN CloneOutputs(
               IF onode.storage = "GPU_Global"
               THEN [acc EXCEPT !.data_already_on_gpu = Put(@, onodename, NoHost)]
               ELSE IF onodename \in DOMAIN acc.cloned_arrays THEN acc
               ELSE [acc EXCEPT !.arrays = AddDatadesc(@, name, CloneDesc(onode)),
                                !.cloned_arrays = Put(@, onodename, name),
                                !.input_nodes =
                                    IF onodename \notin ToSeqSet(@) /\ ~found_full_write
                                    THEN Append(@, onodename) ELSE @],
               todo \ {onodename}, blocks)

\* Lines 301-309: the arrays in GPU global memory that interstate edges read
RECURSIVE CheckMemlets(_, _, _)
CheckMemlets(already, arrays, names) ==
    IF names = {} THEN already
    ELSE LET d == CHOOSE x \in names : TRUE
         IN CheckMemlets(IF arrays[d].storage = "GPU_Global" THEN Put(already, d, NoHost) ELSE already,
                         arrays, names \ {d})

\* Lines 311-321: the access nodes, then the memlets, of every state are
\* redirected to the shadows.
ReplaceNodes(blocks, cloned_arrays) ==
    [b \in 1..Len(blocks) |->
        [blocks[b] EXCEPT !.nodes = [i \in 1..Len(@) |->
            IF @[i].data \in DOMAIN cloned_arrays
            THEN [@[i] EXCEPT !.data = cloned_arrays[@]] ELSE @[i]]]]
\* (First, a redirection that leaves the write-conflict edges alone.)
ReplaceMemletsOfNodesOnly(blocks, cloned_arrays) ==
    [b \in 1..Len(blocks) |->
        [blocks[b] EXCEPT
            !.nodes = [i \in 1..Len(@) |->
                IF @[i].memlet \in DOMAIN cloned_arrays
                THEN [@[i] EXCEPT !.memlet = cloned_arrays[@]] ELSE @[i]]]]
ReplaceMemlets(blocks, cloned_arrays) ==
    [b \in 1..Len(blocks) |->
        [blocks[b] EXCEPT
            !.nodes = [i \in 1..Len(@) |->
                IF @[i].memlet \in DOMAIN cloned_arrays
                THEN [@[i] EXCEPT !.memlet = cloned_arrays[@]] ELSE @[i]],
            !.wcr = {IF d \in DOMAIN cloned_arrays THEN cloned_arrays[d] ELSE d : d \in @}]]

\* dtypes.deduplicate: the first occurrences, in order
RECURSIVE Deduplicate(_)
Deduplicate(seq) ==
    IF seq = <<>> THEN <<>>
    ELSE LET front == Deduplicate(SubSeq(seq, 1, Len(seq) - 1))
             last == seq[Len(seq)]
         IN IF last \in ToSeqSet(front) THEN front ELSE Append(front, last)

\* Lines 330-337: the copy-in state, a copy from each input array that has a
\* shadow and is not excluded into its shadow, with the memlet of the whole
\* host array.
\* (First, a copy-in state that does not look at exclude_copyin.)
RECURSIVE CopyinNodesNoExclusion(_, _, _, _)
CopyinNodesNoExclusion(names, i, cloned_arrays, excluded_copyin) ==
    IF i > Len(names) THEN <<>>
    ELSE (IF names[i] \notin DOMAIN cloned_arrays THEN <<>>
          ELSE <<GpuAccess(names[i], TRUE, FALSE, <<>>),
                 [GpuAccess(cloned_arrays[names[i]], FALSE, FALSE, <<FullWrite>>)
                    EXCEPT !.memlet = names[i]]>>)
         \o CopyinNodesNoExclusion(names, i + 1, cloned_arrays, excluded_copyin)
RECURSIVE CopyinNodes(_, _, _, _)
CopyinNodes(names, i, cloned_arrays, excluded_copyin) ==
    IF i > Len(names) THEN <<>>
    ELSE (IF names[i] \in excluded_copyin \/ names[i] \notin DOMAIN cloned_arrays THEN <<>>
          ELSE <<GpuAccess(names[i], TRUE, FALSE, <<>>),
                 [GpuAccess(cloned_arrays[names[i]], FALSE, FALSE, <<FullWrite>>)
                    EXCEPT !.memlet = names[i]]>>)
         \o CopyinNodes(names, i + 1, cloned_arrays, excluded_copyin)

\* Lines 347-355: the copy-out state, a copy from the shadow of each output
\* array that has one and is not excluded into the host array.
RECURSIVE CopyoutNodes(_, _, _, _)
CopyoutNodes(names, i, cloned_arrays, excluded_copyout) ==
    IF i > Len(names) THEN <<>>
    ELSE (IF names[i] \in excluded_copyout \/ names[i] \notin DOMAIN cloned_arrays THEN <<>>
          ELSE <<[GpuAccess(cloned_arrays[names[i]], TRUE, FALSE, <<>>) EXCEPT !.memlet = names[i]],
                 GpuAccess(names[i], FALSE, FALSE, <<FullWrite>>)>>)
         \o CopyoutNodes(names, i + 1, cloned_arrays, excluded_copyout)

\* Lines 383-395 and 462-480: the data written by the top-level maps, all on
\* the GPU schedule (the states labelled "state" hold maps, the copy states
\* none), and the top-level transients that do not feed a dynamic map range
\* and are not scalars, move to GPU global memory.
RECURSIVE PromoteNodes(_, _, _, _)
PromoteNodes(arrays, nodes, i, maps) ==
    IF i > Len(nodes) THEN arrays
    ELSE
        LET d == nodes[i].data
            desc == arrays[d]
            written == maps /\ nodes[i].in_edges # <<>>
            movable == /\ desc.transient
                       /\ ~nodes[i].dyn
                       /\ desc.storage \notin gpu_storage
                       /\ desc.kind # "Scalar"
        IN PromoteNodes(IF written \/ movable
                        THEN [arrays EXCEPT ![d].storage = "GPU_Global"] ELSE arrays,
                        nodes, i + 1, maps)
RECURSIVE PromoteStorage(_, _, _)
PromoteStorage(arrays, blocks, i) ==
    IF i > Len(blocks) THEN arrays
    ELSE PromoteStorage(PromoteNodes(arrays, blocks[i].nodes, 1, blocks[i].label = "state"),
                        blocks, i + 1)

\* _create_copy_out (lines 551-589) for the arrays still to do: per array a
\* copy from the device name to the host name in co_state; an array that was
\* already on the GPU gets a host shadow host_name, made once.
RECURSIVE CreateCopyOut(_, _, _)
CreateCopyOut(acc, todo, cloned_arrays) ==
    IF todo = {} THEN acc
    ELSE
        LET nname == CHOOSE x \in todo : TRUE
            already == nname \in DOMAIN acc.data_already_on_gpu
            fresh == already /\ acc.data_already_on_gpu[nname] = NoHost
            newname == FindNewName(acc.arrays, "host", nname.base, 0)
            hostname == IF ~already THEN nname
                        ELSE IF fresh THEN newname ELSE acc.data_already_on_gpu[nname]
            devicename == IF already THEN nname ELSE cloned_arrays[nname]
            desc == [acc.arrays[nname] EXCEPT !.storage = "CPU_Heap", !.transient = TRUE]
        IN CreateCopyOut(
               [arrays |-> IF fresh THEN AddDatadesc(acc.arrays, newname, desc) ELSE acc.arrays,
                data_already_on_gpu |-> IF fresh THEN Put(acc.data_already_on_gpu, nname, newname)
                                        ELSE acc.data_already_on_gpu,
                nodes |-> acc.nodes \o
                    <<[GpuAccess(devicename, TRUE, FALSE, <<>>) EXCEPT !.memlet = hostname],
                      GpuAccess(hostname, FALSE, FALSE, <<FullWrite>>)>>,
                name_mapping |-> Put(acc.name_mapping, devicename, hostname)],
               todo \ {nname}, cloned_arrays)

\* Lines 591-609 from the i-th of the n blocks on: a block whose out-edges
\* read cloned data gets an interim copy-out state behind it, which takes
\* over its out-edges, renamed to the host names.
RECURSIVE InterstateCopyOut(_, _, _, _, _)
InterstateCopyOut(acc, i, n, cloned_arrays, cloned_data) ==
    IF i > n THEN acc
    ELSE
        LET out == {e \in acc.edges : e.src = i}
            arrays_used == UNION {e.syms : e \in out} \cap cloned_data
            co_state == Len(acc.blocks) + 1
            co == CreateCopyOut([arrays |-> acc.arrays,
                                 data_already_on_gpu |-> acc.data_already_on_gpu,
                                 nodes |-> <<>>, name_mapping |-> <<>>],
                                arrays_used, cloned_arrays)
            Renamed(syms) == {IF x \in DOMAIN co.name_mapping THEN co.name_mapping[x] ELSE x : x \in syms}
        IN InterstateCopyOut(
               IF arrays_used = {} THEN acc
               ELSE [arrays |-> co.arrays,
                     data_already_on_gpu |-> co.data_already_on_gpu,
                     blocks |-> Append(acc.blocks, GpuState("icopyout", co.nodes, {})),
                     edges |-> (acc.edges \ out)
                               \cup {GpuEdge(co_state, e.dst, Renamed(e.syms)) : e \in out}
                               \cup {GpuEdge(i, co_state, {})}],
               i + 1, n, cloned_arrays, cloned_data)

\* sdfg.start_block and sdfg.sink_nodes()
StartBlock(g) == CHOOSE b \in 1..Len(g.blocks) : \A e \in g.edges : e.dst # b
GpuSinkNodes(g) == {b \in 1..Len(g.blocks) : \A e \in g.edges : e.src # b}

\* GPUTransformSDFG.apply with the exclusion lists of config, on an SDFG whose
\* code is all in top-level maps: the SDFG it leaves and what it computed on
\* the way.
GpuApply(g, config) ==
    LET classified == ClassifyStates(g.arrays, g.blocks, 1, [input_nodes |-> <<>>, output_nodes |-> <<>>])
        start_block == StartBlock(g)
        end_blocks == GpuSinkNodes(g)
        ins == CloneInputs([arrays |-> g.arrays, cloned_arrays |-> <<>>, data_already_on_gpu |-> <<>>,
                            input_nodes |-> classified.input_nodes],
                           ToSeqSet(classified.input_nodes))
        outs == CloneOutputs(ins, ToSeqSet(classified.output_nodes), g.blocks)
        already == CheckMemlets(outs.data_already_on_gpu, outs.arrays,
                                UNION {e.syms : e \in g.edges} \cap DOMAIN outs.arrays)
        cloned_arrays == outs.cloned_arrays
        redirected == ReplaceMemlets(ReplaceNodes(g.blocks, cloned_arrays), cloned_arrays)
        copyin_state == Len(g.blocks) + 1
        copyout_state == Len(g.blocks) + 2
        copyin == GpuState("copyin",
                    CopyinNodes(Deduplicate(outs.input_nodes), 1, cloned_arrays, config.exclude_copyin), {})
        copyout == GpuState("copyout",
                    CopyoutNodes(Deduplicate(classified.output_nodes), 1, cloned_arrays, config.exclude_copyout), {})
        blocks3 == redirected \o <<copyin, copyout>>
        edges3 == g.edges \cup {GpuEdge(copyin_state, start_block, {})}
                          \cup {GpuEdge(b, copyout_state, {}) : b \in end_blocks}
        promoted == PromoteStorage(outs.arrays, blocks3, 1)
        cloned_data == DOMAIN cloned_arrays \cup DOMAIN already
        final == InterstateCopyOut([arrays |-> promoted, data_already_on_gpu |-> already,
                                    blocks |-> blocks3, edges |-> edges3],
                                   1, Len(blocks3), cloned_arrays, cloned_data)
    IN [sdfg |-> [arrays |-> final.arrays, blocks |-> final.blocks, edges |-> final.edges],
        input_nodes |-> outs.input_nodes,
        output_nodes |-> classified.output_nodes,
        classified_inputs |-> classified.input_nodes,
        cloned_arrays |-> cloned_arrays,
        data_already_on_gpu |-> DOMAIN already,
        start_block |-> start_block,
        end_blocks |-> end_blocks,
        copyin_state |-> copyin_state,
        copyout_state |-> copyout_state]

\* The SDFGs the transformation is run on: NumData arrays, each an array or a
\* scalar, on the host or in GPU global memory, or a transient array; two
\* states in a row, each reading and writing some of them; the interstate edge
\* may read one of the arrays.
GpuDescs ==
    {Desc(k, st, FALSE) : k \in {"Array", "Scalar"}, st \in {"Default", "GPU_Global"}}
    \cup {Desc("Array", "Default", TRUE)}
GpuWrites == {FullWrite, PartialWrite}
GpuNodeChoices(d) ==
    {<<>>, <<GpuAccess(d, TRUE, FALSE, <<>>)>>, <<GpuAccess(d, TRUE, TRUE, <<>>)>>}
    \cup {<<GpuAccess(d, FALSE, FALSE, <<w>>)>> : w \in GpuWrites}
FirstStates ==
    {GpuState("state", n1 \o n2, {}) :
        n1 \in GpuNodeChoices(Original(1)) \cup {<<GpuAccess(Original(1), TRUE, FALSE, <<PartialWrite>>)>>},
        n2 \in GpuNodeChoices(Original(2))}
    \cup {GpuState("state", <<GpuAccess(Original(2), FALSE, FALSE, <<PartialWrite>>)>>, {Original(2)})}
SecondStates ==
    {GpuState("state", n1 \o n2, {}) :
        n1 \in {<<>>, <<GpuAccess(Original(1), FALSE, FALSE, <<FullWrite>>)>>},
        n2 \in {<<>>, <<GpuAccess(Original(2), TRUE, FALSE, <<>>)>>}
               \cup {<<GpuAccess(Original(2), FALSE, FALSE, <<w>>)>> : w \in GpuWrites}}
GpuSdfgs ==
    {[arrays |-> [d \in {Original(b) : b \in DataBases} |-> descs[d.base]],
      blocks |-> <<s1, s2>>,
      edges |-> {GpuEdge(1, 2, syms)}]
        : descs \in [DataBases -> GpuDescs], s1 \in FirstStates, s2 \in SecondStates,
          syms \in {{}, {Original(1)}}}
GpuConfigs ==
    {[exclude_copyin |-> ci, exclude_copyout |-> co] :
        ci \in {{}, {Original(1)}}, co \in {{}, {Original(2)}}}

InitGpu ==
    /\ sdfg \in GpuSdfgs
    /\ xf = [config |-> [exclude_copyin |-> {}, exclude_copyout |-> {}], result |-> <<>>]
    /\ graph = [node |-> DefaultNode, edge |-> DefaultMemlet]
    /\ cfg = IdleCfg
    /\ pre = sdfg
    /\ call = NoCall
    /\ exc = "none"
    /\ warned = FALSE
    /\ ncalls = 0

\* GPUTransformSDFG applied to the SDFG, the first time or on its own output
DoGpuApply ==
    /\ ncalls < MaxGpuRuns
    /\ \E config \in GpuConfigs :
        LET r == GpuApply(sdfg, config) IN
        /\ sdfg' = r.sdfg
        /\ xf' = [config |-> config, result |-> r]
    /\ call' = [op |-> "gpu_apply"]
    /\ pre' = sdfg
    /\ exc' = "none"
    /\ warned' = FALSE
    /\ ncalls' = ncalls + 1
    /\ UNCHANGED <<graph, cfg>>

NextGpu == DoGpuApply

SpecGpu == InitGpu /\ [][NextGpu]_vars

\* ------------------------------------------- claims on GPUTransformSDFG
GpuApplied == call.op = "gpu_apply"
Result == xf.result

\* The copies of a copy state, as pairs <<source data, destination data>>
Copies(st) == {<<st.nodes[2 * k - 1].data, st.nodes[2 * k].data>> : k \in 1..(Len(st.nodes) \div 2)}
StatesLabelled(g, label) == {b \in 1..Len(g.blocks) : g.blocks[b].label = label}

\* What the SDFG says about an array before the call: a top-level map reads
\* it (other than for a dynamic map range) or an edge resolves write
\* conflicts on it; a map writes it; some write overwrites it whole.
AccessesOf(g, d) == {n \in UNION {ToSeqSet(g.blocks[b].nodes) : b \in 1..Len(g.blocks)} : n.data = d}
IsRead(g, d) ==
    \/ \E n \in AccessesOf(g, d) : n.out /\ ~n.dyn
    \/ \E b \in 1..Len(g.blocks) : d \in g.blocks[b].wcr
IsWritten(g, d) == \E n \in AccessesOf(g, d) : n.in_edges # <<>>
IsOverwritten(g, d) ==
    \E n \in AccessesOf(g, d) : \E i \in 1..Len(n.in_edges) :
        /\ n.in_edges[i].full
        /\ \A j \in 1..Len(n.in_edges[i].tree) :
              /\ ~n.in_edges[i].tree[j].dynamic
              /\ n.in_edges[i].tree[j].volume % n.in_edges[i].tree[j].size = 0
NonTransient(g) == {d \in DOMAIN g.arrays : ~g.arrays[d].transient}
InputArrays(g) == {d \in NonTransient(g) : IsRead(g, d)}
OutputArrays(g) == {d \in NonTransient(g) : IsWritten(g, d)}
OnGpu(g, d) == g.arrays[d].storage = "GPU_Global"
Cloned == DOMAIN Result.cloned_arrays

NewShadows == {k \in DOMAIN sdfg.arrays \ DOMAIN pre.arrays : k.prefix = "gpu"}
RecordedShadows == {Result.cloned_arrays[d] : d \in Cloned}
OneShadowEach ==
    /\ NewShadows = RecordedShadows
    /\ Cardinality(RecordedShadows) = Cardinality(Cloned)
    /\ \A k \in NewShadows : sdfg.arrays[k].storage = "GPU_Global"
\* No access node, memlet or write-conflict edge of a state that existed
\* before the call names an array that got a shadow.
Redirected ==
    \A b \in 1..Len(pre.blocks) :
        /\ \A i \in 1..Len(sdfg.blocks[b].nodes) :
              /\ sdfg.blocks[b].nodes[i].data \notin Cloned
              /\ sdfg.blocks[b].nodes[i].memlet \notin Cloned
        /\ sdfg.blocks[b].wcr \cap Cloned = {}
\* Every interstate edge there was still reads the same arrays with a shadow,
\* under their original names, and none under the name of a shadow.
InterstateKeepsNames ==
    /\ \A e \in pre.edges : \E x \in sdfg.edges :
          x.dst = e.dst /\ x.syms \cap Cloned = e.syms \cap Cloned
    /\ \A x \in sdfg.edges : x.syms \cap RecordedShadows = {}

C15_NoRecloneOnSecondRun ==
    (GpuApplied /\ ncalls = 2) =>
        /\ \A d \in DOMAIN pre.arrays : OnGpu(pre, d) => d \notin Cloned
        /\ OneShadowEach
        /\ \A d \in InputArrays(pre) \cup OutputArrays(pre) :
              OnGpu(pre, d) => d \in Result.data_already_on_gpu

\* The second run met a shadow of the first run that states access, and an
\* input or output array in GPU global memory, and it did clone some array.
C15_Witness ==
    /\ GpuApplied
    /\ ncalls = 2
    /\ \E d \in DOMAIN pre.arrays : d.prefix = "gpu" /\ OnGpu(pre, d) /\ AccessesOf(pre, d) # {}
    /\ \E d \in InputArrays(pre) \cup OutputArrays(pre) : OnGpu(pre, d)
    /\ Cloned # {}

\* C15, read to the letter: on the second run every array in GPU global
\* memory that states access, the shadows of the first run included, is
\* recorded as already on the GPU.
C15_AllClassifiedAlreadyOnGpu ==
    (GpuApplied /\ ncalls = 2) =>
        \A d \in DOMAIN pre.arrays :
            (OnGpu(pre, d) /\ AccessesOf(pre, d) # {}) =>
                d \notin Cloned /\ d \in Result.data_already_on_gpu

\* --------------------------------- the scan for a full write (lines 275-299)
\* SDFGs for the scan: one array, written in the first state by one or two
\* edges and in the second by at most one, each write to the full range or
\* not, along a memlet tree of one or two edges, each edge dynamic or not and
\* of full or partial volume.
ScanEdges == {TreeEdge(FALSE, NumElements), TreeEdge(TRUE, NumElements), TreeEdge(FALSE, 1), TreeEdge(FALSE, 0)}
ScanTrees == {<<a>> : a \in ScanEdges} \cup {<<a, b>> : a, b \in ScanEdges \ {TreeEdge(FALSE, 0)}}
ScanWrites == {Write(TRUE, t) : t \in ScanTrees} \cup {PartialWrite}
ScanSdfgs ==
    {[arrays |-> [d \in {Original(b) : b \in DataBases} |->
                    IF d = Original(1) THEN desc ELSE Desc("Array", "Default", FALSE)],
      blocks |-> <<GpuState("state", <<GpuAccess(Original(1), out, FALSE, w1)>>, {}),
                   GpuState("state", w2, {})>>,
      edges |-> {GpuEdge(1, 2, {})}]
        : desc \in GpuDescs, out \in BOOLEAN,
          w1 \in {<<a>> : a \in ScanWrites} \cup {<<a, b>> : a, b \in ScanWrites},
          w2 \in {<<>>} \cup {<<GpuAccess(Original(1), FALSE, FALSE, <<w>>)>> :
                                 w \in {FullWrite, PartialWrite, Write(TRUE, <<TreeEdge(TRUE, NumElements)>>)}}}

InitScan ==
    /\ sdfg \in ScanSdfgs
    /\ xf = [config |-> [exclude_copyin |-> {}, exclude_copyout |-> {}], result |-> <<>>]
    /\ graph = [node |-> DefaultNode, edge |-> DefaultMemlet]
    /\ cfg = IdleCfg
    /\ pre = sdfg
    /\ call = NoCall
    /\ exc = "none"
    /\ warned = FALSE
    /\ ncalls = 0

SpecScan == InitScan /\ [][NextGpu]_vars

CopyinSet == ToSeqSet(Result.input_nodes)
CopiedIn == {c[1] : c \in Copies(sdfg.blocks[Result.copyin_state])}

\* C19: an output array that is not an input is in the copy-in set exactly
\* when no write to it, in any state, is to the full range along a memlet
\* tree without a dynamic edge and without an edge of partial volume; an
\* output overwritten whole is not copied in.  The SDFGs hold the writes in
\* every order, so the decision does not depend on the order of the scan.
C19_CopyInUnlessOverwritten ==
    GpuApplied =>
        \A d \in OutputArrays(pre) \ InputArrays(pre) :
            /\ d \in CopyinSet <=> ~IsOverwritten(pre, d)
            /\ IsOverwritten(pre, d) => d \notin CopiedIn

\* C19 as amended: the same, of the output arrays that get a shadow.
C19_CopyInUnlessOverwrittenAmended ==
    GpuApplied =>
        \A d \in (OutputArrays(pre) \cap Cloned) \ InputArrays(pre) :
            /\ d \in CopyinSet <=> ~IsOverwritten(pre, d)
            /\ IsOverwritten(pre, d) => d \notin CopiedIn
            /\ (~IsOverwritten(pre, d) /\ d \notin xf.config.exclude_copyin) => d \in CopiedIn

\* An output with a shadow whose first write is not a full one (partial range,
\* or a dynamic edge further up its tree) and whose later write overwrites it
\* whole: it is not copied in.
C19_Witness ==
    /\ GpuApplied
    /\ ncalls = 1
    /\ Original(1) \in (OutputArrays(pre) \cap Cloned) \ InputArrays(pre)
    /\ LET w == pre.blocks[1].nodes[1].in_edges
       IN /\ Len(w) = 2
          /\ w[1].full /\ Len(w[1].tree) = 2 /\ w[1].tree[2].dynamic
          /\ w[2] = FullWrite
    /\ Original(1) \notin CopyinSet
    /\ Original(1) \notin CopiedIn

\* ------------------------------------ the scalar fixed point (lines 402-434)
\* A state for the loop: the descriptors; the data whose shape is (1,); the
\* edges between access nodes, as pairs of data; whether the memlets hold one
\* element; whether the SDFG is nested in a node on the GPU schedule; and the
\* tasklets in the order of state.nodes(), each free (outside any scope and
\* any GPU kernel) or not, with the data at the far end of the memlet paths
\* of its in-edges and of its out-edges.
FixTasklet(free, ins, outs) == [free |-> free, ins |-> ins, outs |-> outs]
NoScalars == [scalset |-> {}, scalout |-> TRUE]

\* _recursive_out_check (lines 19-49), over the data the out-edges of a node
\* lead to.
RECURSIVE RecursiveOutCheck(_, _, _)
RecursiveOutCheck(g, dsts, gpu_scalars) ==
    IF dsts = {} THEN NoScalars
    ELSE
        LET d == CHOOSE x \in dsts : TRUE
            desc == g.arrays[d]
            sub == RecursiveOutCheck(g, {c[2] : c \in {x \in g.copies : x[1] = d}}, gpu_scalars)
            rest == RecursiveOutCheck(g, dsts \ {d}, gpu_scalars)
            here == IF desc.kind = "Scalar"
                    THEN [scalset |-> {d} \cup sub.scalset,
                          scalout |-> ~(desc.storage \in gpu_storage \/ d \in gpu_scalars) /\ sub.scalout]
                    ELSE IF d \in g.unit_shape THEN [sub EXCEPT !.scalout = FALSE]
                    ELSE IF desc.storage \notin gpu_storage /\ g.one_element THEN sub
                    ELSE [scalset |-> {}, scalout |-> FALSE]
        IN [scalset |-> here.scalset \cup rest.scalset, scalout |-> here.scalout /\ rest.scalout]

\* _recursive_in_check (lines 52-84), over the data the in-edges of a node
\* come from.
RECURSIVE RecursiveInCheck(_, _, _)
RecursiveInCheck(g, srcs, gpu_scalars) ==
    IF srcs = {} THEN NoScalars
    ELSE
        LET d == CHOOSE x \in srcs : TRUE
            desc == g.arrays[d]
            sub == RecursiveInCheck(g, {c[1] : c \in {x \in g.copies : x[2] = d}}, gpu_scalars)
            rest == RecursiveInCheck(g, srcs \ {d}, gpu_scalars)
            here == IF desc.kind = "Scalar"
                    THEN [scalset |-> {d} \cup sub.scalset,
                          scalout |-> ~(desc.storage \in gpu_storage \/ d \in gpu_scalars) /\ sub.scalout]
                    ELSE IF d \in g.unit_shape THEN [sub EXCEPT !.scalout = FALSE]
                    ELSE IF desc.storage \notin gpu_storage /\ g.one_element THEN sub
                    ELSE [scalset |-> {}, scalout |-> FALSE]
        IN [scalset |-> here.scalset \cup rest.scalset, scalout |-> here.scalout /\ rest.scalout]

\* Lines 423-426 and 429-431: the scalars next to the tasklet, and whether
\* the tasklet has to move into a kernel.
ScalarsOf(g, node, gpu_scalars) ==
    RecursiveOutCheck(g, node.outs, gpu_scalars).scalset
        \cup RecursiveInCheck(g, node.ins, gpu_scalars).scalset
MustMove(g, node, gpu_scalars) ==
    LET scalar_output == /\ RecursiveOutCheck(g, node.outs, gpu_scalars).scalout
                         /\ RecursiveInCheck(g, node.ins, gpu_scalars).scalout
    IN ~scalar_output \/ g.nested_on_gpu

\* Lines 410-434: one pass of the while loop over the tasklets from the i-th
\* on.
\* (First, a pass that adds tasklets without asking for another pass.)
RECURSIVE ScalarPassWithoutChange(_, _, _)
ScalarPassWithoutChange(g, i, acc) ==
    IF i > Len(g.tasklets) THEN acc
    ELSE
        LET node == g.tasklets[i]
        IN ScalarPassWithoutChange(g, i + 1,
               IF i \in acc.global_code_nodes \/ ~node.free THEN acc
               ELSE IF MustMove(g, node, acc.gpu_scalars)
               THEN [acc EXCEPT !.global_code_nodes = @ \cup {i},
                                !.gpu_scalars = @ \cup ScalarsOf(g, node, acc.gpu_scalars)]
               ELSE acc)
RECURSIVE ScalarPass(_, _, _)
ScalarPass(g, i, acc) ==
    IF i > Len(g.tasklets) THEN acc
    ELSE
        LET node == g.tasklets[i]
        IN ScalarPass(g, i + 1,
               IF i \in acc.global_code_nodes \/ ~node.free THEN acc
               ELSE IF MustMove(g, node, acc.gpu_scalars)
               THEN [acc EXCEPT !.global_code_nodes = @ \cup {i},
                                !.gpu_scalars = @ \cup ScalarsOf(g, node, acc.gpu_scalars),
                                !.changed = TRUE]
               ELSE acc)

\* The states the loop is run on: three data, the first a scalar, an array or
\* an array of shape (1,) on the host, the second a scalar on the host or on
\* the GPU or an array on the host, the third an array on the GPU or on the
\* host or a scalar on the host; possibly a copy from the first to the second;
\* three tasklets that may form a chain through the first two data.
FixData == {Original(b) : b \in 1..NumFixData}
FixDescs ==
    {<<a, b, c>> :
        a \in {Desc("Scalar", "Default", TRUE), Desc("Array", "Default", TRUE)},
        b \in {Desc("Scalar", "Default", TRUE), Desc("Scalar", "GPU_Global", TRUE), Desc("Array", "Default", TRUE)},
        c \in {Desc("Array", "GPU_Global", TRUE), Desc("Array", "Default", TRUE), Desc("Scalar", "Default", TRUE)}}
FixTasklets ==
    {<<FixTasklet(free, {}, o1), FixTasklet(TRUE, i2, o2), FixTasklet(TRUE, i3, o3)>> :
        free \in BOOLEAN, o1 \in {{Original(1)}, {Original(2)}},
        i2 \in {{}, {Original(1)}}, o2 \in {{Original(2)}, {Original(3)}},
        i3 \in {{}, {Original(2)}, {Original(1), Original(2)}}, o3 \in {{}, {Original(3)}}}
FixGraphs ==
    {[arrays |-> [d \in FixData |-> descs[d.base]],
      unit_shape |-> us,
      copies |-> cp,
      one_element |-> flags[1],
      nested_on_gpu |-> flags[2],
      tasklets |-> ts]
        : descs \in FixDescs,
          us \in {{}, {Original(1)}},
          cp \in {{}, {<<Original(1), Original(2)>>}},
          flags \in {<<TRUE, FALSE>>, <<FALSE, FALSE>>, <<FALSE, TRUE>>},
          ts \in FixTasklets}

InitFixpoint ==
    /\ sdfg \in {g \in FixGraphs : \A d \in g.unit_shape : g.arrays[d].kind = "Array"}
    /\ xf = [pc |-> "loop", changed |-> TRUE, global_code_nodes |-> {}, gpu_scalars |-> {}, passes |-> 0]
    /\ graph = [node |-> DefaultNode, edge |-> DefaultMemlet]
    /\ cfg = IdleCfg
    /\ pre = sdfg
    /\ call = NoCall
    /\ exc = "none"
    /\ warned = FALSE
    /\ ncalls = 0

\* One pass of `while changed` (lines 409-434)
DoScalarPass ==
    /\ xf.pc = "loop"
    /\ xf.changed
    /\ LET r == ScalarPass(sdfg, 1, [global_code_nodes |-> xf.global_code_nodes,
                                     gpu_scalars |-> xf.gpu_scalars,
                                     changed |-> FALSE])
       IN xf' = [pc |-> "loop", changed |-> r.changed, global_code_nodes |-> r.global_code_nodes,
                 gpu_scalars |-> r.gpu_scalars, passes |-> xf.passes + 1]
    /\ call' = [op |-> "scalar_pass"]
    /\ UNCHANGED <<graph, sdfg, cfg, pre, exc, warned, ncalls>>

\* The loop ends when a pass changed nothing
DoScalarExit ==
    /\ xf.pc = "loop"
    /\ ~xf.changed
    /\ xf' = [xf EXCEPT !.pc = "done"]
    /\ call' = [op |-> "scalar_exit"]
    /\ UNCHANGED <<graph, sdfg, cfg, pre, exc, warned, ncalls>>

NextFixpoint == DoScalarPass \/ DoScalarExit

\* The loop is straight-line code: a pass that can run does run.
SpecFixpoint == InitFixpoint /\ [][NextFixpoint]_vars /\ WF_vars(NextFixpoint)

\* ------------------------------------------ claims on the scalar fixed point
FreeTasklets == {i \in 1..Len(sdfg.tasklets) : sdfg.tasklets[i].free}
\* The sets only grow, and a pass that asks for another one has added a
\* tasklet that was not in the set.
GrowsByPass ==
    /\ xf.global_code_nodes \subseteq xf'.global_code_nodes
    /\ xf.gpu_scalars \subseteq xf'.gpu_scalars
    /\ (xf'.passes = xf.passes + 1 /\ xf'.changed) =>
          xf'.global_code_nodes \ xf.global_code_nodes # {}
PassesBounded ==
    /\ xf.passes <= Cardinality(xf.global_code_nodes) + 1
    /\ xf.passes <= Len(sdfg.tasklets) + 1
ClosedAtExit ==
    xf.pc = "done" =>
        \A i \in FreeTasklets \ xf.global_code_nodes :
            ~MustMove(sdfg, sdfg.tasklets[i], xf.gpu_scalars)

\* C16: the loop ends; from pass to pass the set of tasklets to move and the
\* set of GPU scalars only grow, and a pass that asks for another pass has
\* added a tasklet; the loop makes at most one pass more than there are
\* tasklets; when it ends no free tasklet outside the set has to move, given
\* the GPU scalars at the end.
C16_FixedPointTerminates ==
    /\ [][GrowsByPass]_vars
    /\ [](PassesBounded /\ ClosedAtExit)
    /\ <>(xf.pc = "done")

\* The loop ended after one pass more than there are tasklets, each pass but
\* the last having added one, the later ones because of a scalar marked in
\* the pass before.
C16_Witness ==
    /\ xf.pc = "done"
    /\ xf.passes = NumTasklets + 1
    /\ xf.global_code_nodes = 1..NumTasklets
    /\ xf.gpu_scalars # {}
\* The loop ended leaving a free tasklet where it is
C16_WitnessLeft ==
    /\ xf.pc = "done"
    /\ xf.passes = 2
    /\ FreeTasklets \ xf.global_code_nodes # {}

\* ---------------------------------- wrapping free tasklets (lines 495-544)
\* A state for step 7: its nodes (tasklets with a label, free or inside a
\* scope or a kernel; access nodes; the entries and exits of the maps the
\* step adds, with their connectors) and its edges.  A connector is a name
\* with the prefix the step gave it, or None.
WConn(prefix, name) == [prefix |-> prefix, name |-> name]
WNone == WConn("", "None")
WMemlet(d) == [data |-> d, subset |-> "all"]
WEmptyMemlet == [data |-> NoHost, subset |-> "empty"]
WNode(kind, label, free, d, schedule, ins, outs) ==
    [kind |-> kind, label |-> label, free |-> free, data |-> d, schedule |-> schedule,
     in_connectors |-> ins, out_connectors |-> outs]
WTasklet(label, free) == WNode("Tasklet", label, free, NoHost, "Default", {}, {})
WAccess(d) == WNode("AccessNode", "", TRUE, d, "Default", {}, {})
WEdgesIn(st, n) == {e \in st.edges : e.dst = n}
WEdgesOut(st, n) == {e \in st.edges : e.src = n}

\* Lines 498-515: the free tasklets not yet in global_code_nodes that have an
\* edge from or to an access node whose data is in GPU storage, in the order
\* of the nodes.
GpuAdjacent(st, n) ==
    \E a \in {e.src : e \in WEdgesIn(st, n)} \cup {e.dst : e \in WEdgesOut(st, n)} :
        st.nodes[a].kind = "AccessNode" /\ st.arrays[st.nodes[a].data].storage \in gpu_storage
ExtendCodeNodes(st, gcodes) ==
    gcodes \o SelectSeq([i \in 1..Len(st.nodes) |-> i],
                        LAMBDA n : /\ st.nodes[n].kind = "Tasklet"
                                   /\ n \notin ToSeqSet(gcodes)
                                   /\ st.nodes[n].free
                                   /\ GpuAdjacent(st, n))

\* 'IN_' + conn and 'OUT_' + conn; a connector that is None cannot be added
\* to a string.
Prefixed(prefix, conn) == WConn(prefix, conn.name)

\* Lines 521-544 for the tasklet gcode: the map is added to the state, its
\* connectors are named after the connectors of the tasklet (a TypeError if
\* one of them is None), and the edges are led through the entry and the exit.
WrapTasklet(st, gcode) ==
    LET in_edges == WEdgesIn(st, gcode)
        out_edges == WEdgesOut(st, gcode)
        me == Len(st.nodes) + 1
        mx == Len(st.nodes) + 2
        label == st.nodes[gcode].label
        failing_in == \E e \in in_edges : e.dst_conn = WNone
        failing == failing_in \/ \E e \in out_edges : e.src_conn = WNone
        entry == WNode("MapEntry", label, TRUE, NoHost, "GPU_Device",
                       IF failing_in THEN {} ELSE {Prefixed("IN_", e.dst_conn) : e \in in_edges},
                       IF failing_in THEN {} ELSE {Prefixed("OUT_", e.dst_conn) : e \in in_edges})
        exit == WNode("MapExit", label, TRUE, NoHost, "GPU_Device",
                      IF failing THEN {} ELSE {Prefixed("IN_", e.src_conn) : e \in out_edges},
                      IF failing THEN {} ELSE {Prefixed("OUT_", e.src_conn) : e \in out_edges})
        through == {Edge(e.src, e.src_conn, me, Prefixed("IN_", e.dst_conn), e.data) : e \in in_edges}
                   \cup {Edge(me, Prefixed("OUT_", e.dst_conn), e.dst, e.dst_conn, e.data) : e \in in_edges}
                   \cup {Edge(e.src, e.src_conn, mx, Prefixed("IN_", e.src_conn), e.data) : e \in out_edges}
                   \cup {Edge(mx, Prefixed("OUT_", e.src_conn), e.dst, e.dst_conn, e.data) : e \in out_edges}
                   \cup (IF in_edges = {} THEN {Edge(me, WNone, gcode, WNone, WEmptyMemlet)} ELSE {})
    IN [st |-> [st EXCEPT !.nodes = @ \o <<entry, exit>>,
                          !.edges = IF failing THEN @ ELSE (@ \ (in_edges \cup out_edges)) \cup through],
        exc |-> IF failing THEN "TypeError" ELSE "none"]

\* Lines 517-520: the loop over global_code_nodes, from the i-th on, skipping
\* the labels of exclude_tasklets; an exception ends it.
RECURSIVE WrapEach(_, _, _, _)
WrapEach(acc, gcodes, i, exclude_tasklets) ==
    IF i > Len(gcodes) \/ acc.exc # "none" THEN acc
    ELSE WrapEach(IF acc.st.nodes[gcodes[i]].label \in exclude_tasklets THEN acc
                  ELSE WrapTasklet(acc.st, gcodes[i]),
                  gcodes, i + 1, exclude_tasklets)

\* Step 7 on a state, the scalar fixed point having left gcodes
Wrap(st, gcodes, exclude_tasklets) ==
    WrapEach([st |-> st, exc |-> "none"], ExtendCodeNodes(st, gcodes), 1, exclude_tasklets)

\* The states step 7 is run on: a tasklet with any of two in-edges into its
\* connectors a and b and an edge without memlet and without connector, all
\* from the first access node, and any of three out-edges, two of them from
\* the same connector to two access nodes of the second array, and one
\* without connector; a second tasklet, alone or between the two arrays; the
\* arrays on the host or on the GPU; any free tasklets selected by the scalar
\* fixed point.
WrapInEdges ==
    {Edge(3, WNone, 1, WConn("", "a"), WMemlet(Original(1))),
     Edge(3, WNone, 1, WConn("", "b"), WMemlet(Original(1))),
     Edge(3, WNone, 1, WNone, WEmptyMemlet)}
WrapOutEdges ==
    {Edge(1, WConn("", "x"), 4, WNone, WMemlet(Original(2))),
     Edge(1, WConn("", "x"), 5, WNone, WMemlet(Original(2))),
     Edge(1, WConn("", "y"), 4, WNone, WMemlet(Original(2))),
     Edge(1, WNone, 5, WNone, WEmptyMemlet)}
WrapSecondEdges ==
    {Edge(3, WNone, 2, WConn("", "a"), WMemlet(Original(1))),
     Edge(2, WConn("", "x"), 4, WNone, WMemlet(Original(2)))}
WrapStates ==
    {[arrays |-> [d \in {Original(1), Original(2)} |->
                    Desc("Array", IF d = Original(1) THEN st[1] ELSE st[2], TRUE)],
      nodes |-> <<WTasklet(label, free), WTasklet("u", TRUE),
                  WAccess(Original(1)), WAccess(Original(2)), WAccess(Original(2))>>,
      edges |-> ins \cup outs \cup second]
        : st \in {"Default", "GPU_Global"} \X {"Default", "GPU_Global"},
          label \in {"t", "u"}, free \in BOOLEAN,
          ins \in SUBSET WrapInEdges, outs \in SUBSET WrapOutEdges,
          second \in {{}, WrapSecondEdges}}

InitWrap ==
    /\ sdfg \in WrapStates
    /\ \E selected \in SUBSET {n \in 1..2 : sdfg.nodes[n].free} :
       \E exclude_tasklets \in {{}, {"u"}} :
           xf = [selected |-> selected, exclude_tasklets |-> exclude_tasklets]
    /\ graph = [node |-> DefaultNode, edge |-> DefaultMemlet]
    /\ cfg = IdleCfg
    /\ pre = sdfg
    /\ call = NoCall
    /\ exc = "none"
    /\ warned = FALSE
    /\ ncalls = 0

\* Step 7, the fixed point having selected the tasklets in some order
DoWrap ==
    /\ ncalls = 0
    /\ \E order \in Orders(xf.selected) :
        LET r == Wrap(sdfg, order, xf.exclude_tasklets) IN
        /\ sdfg' = r.st
        /\ exc' = r.exc
    /\ call' = [op |-> "wrap"]
    /\ pre' = sdfg
    /\ ncalls' = 1
    /\ UNCHANGED <<graph, cfg, xf, warned>>

NextWrap == DoWrap

SpecWrap == InitWrap /\ [][NextWrap]_vars

\* ------------------------------------------------- claims on the wrapping
Wrapped == call.op = "wrap"
WTasklets == {n \in 1..Len(pre.nodes) : pre.nodes[n].kind = "Tasklet"}
ShouldWrap(n) ==
    /\ pre.nodes[n].free
    /\ n \in xf.selected \/ GpuAdjacent(pre, n)
    /\ pre.nodes[n].label \notin xf.exclude_tasklets
NewNodes == (Len(pre.nodes) + 1)..Len(sdfg.nodes)
EntriesOf(n) == {m \in NewNodes : sdfg.nodes[m].kind = "MapEntry" /\ \E e \in sdfg.edges : e.src = m /\ e.dst = n}
ExitsOf(n) == {m \in NewNodes : sdfg.nodes[m].kind = "MapExit" /\ \E e \in sdfg.edges : e.src = n /\ e.dst = m}
\* The tasklet n is inside the map me..mx: its edges are led through the
\* entry and the exit, one connector of the map per edge, ends, connectors
\* and memlets kept.
Enclosed(n, me, mx) ==
    /\ sdfg.nodes[me].schedule = "GPU_Device"
    /\ sdfg.nodes[mx].schedule = "GPU_Device"
    /\ \A e \in WEdgesIn(sdfg, n) : e.src = me
    /\ \A e \in WEdgesOut(sdfg, n) : e.dst = mx
    /\ \A e \in WEdgesIn(pre, n) :
          \E c \in sdfg.nodes[me].in_connectors : \E c2 \in sdfg.nodes[me].out_connectors :
              /\ WEdgesIn(sdfg, me) \cap {x \in sdfg.edges : x.dst_conn = c} = {Edge(e.src, e.src_conn, me, c, e.data)}
              /\ Edge(me, c2, n, e.dst_conn, e.data) \in sdfg.edges
    /\ Cardinality(sdfg.nodes[me].in_connectors) = Cardinality(WEdgesIn(pre, n))
    /\ \A e \in WEdgesOut(pre, n) :
          \E c \in sdfg.nodes[mx].in_connectors : \E c2 \in sdfg.nodes[mx].out_connectors :
              /\ WEdgesIn(sdfg, mx) \cap {x \in sdfg.edges : x.dst_conn = c} = {Edge(n, e.src_conn, mx, c, e.data)}
              /\ Edge(mx, c2, e.dst, e.dst_conn, e.data) \in sdfg.edges
    /\ Cardinality(sdfg.nodes[mx].in_connectors) = Cardinality(WEdgesOut(pre, n))
    /\ WEdgesIn(pre, n) = {} => WEdgesIn(sdfg, n) = {Edge(me, WNone, n, WNone, WEmptyMemlet)}
    /\ WEdgesIn(pre, n) # {} => Cardinality(WEdgesIn(sdfg, n)) = Cardinality(WEdgesIn(pre, n))
    /\ Cardinality(WEdgesOut(sdfg, n)) = Cardinality(WEdgesOut(pre, n))

\* C20: step 7 ends without an exception; every free tasklet that the fixed
\* point selected or that has an array in GPU storage next to it, and whose
\* label is not excluded, is then inside one new map on the GPU schedule,
\* its edges led through the entry and the exit of the map, one connector of
\* the map per edge, with ends, connectors and memlets as they were, and an
\* edge without memlet from the entry if it had no in-edge; the other
\* tasklets keep their edges, and no other map is added.
C20_FreeTaskletsWrapped ==
    Wrapped =>
        /\ exc = "none"
        /\ \A n \in WTasklets :
              IF ShouldWrap(n)
              THEN \E me, mx \in NewNodes :
                      EntriesOf(n) = {me} /\ ExitsOf(n) \subseteq {mx} /\ Enclosed(n, me, mx)
              ELSE /\ WEdgesIn(sdfg, n) = WEdgesIn(pre, n)
                   /\ WEdgesOut(sdfg, n) = WEdgesOut(pre, n)
        /\ Cardinality(NewNodes) = 2 * Cardinality({n \in WTasklets : ShouldWrap(n)})

\* ------------------------------------- more claims on code blocks (SpecCode)
\* The names for which the call of replace_in_codeblock put a binding in
\* front of the code
BoundNames == {graph.node.code[j + 1].n : j \in BindingStarts}

\* C23: after replace_in_codeblock on the C++ code of a tasklet, a name for
\* which a binding was prepended is not in the ignored symbols of the
\* tasklet, and the other names are in or out of the set as they were.
C23_BoundNamesLeaveIgnored ==
    (CppCall("replace_in_codeblock") /\ call.node) =>
        /\ \A k \in BoundNames : k \notin graph.node.ignored_symbols
        /\ \A k \in CodeNames \ BoundNames :
              k \in graph.node.ignored_symbols <=> k \in pre.node.ignored_symbols

\* C23 as amended: a name for which a binding was prepended is in the ignored
\* symbols of the tasklet afterwards; the other names are in or out of the
\* set as they were.
C23_BoundNamesJoinIgnored ==
    (CppCall("replace_in_codeblock") /\ call.node) =>
        /\ \A k \in BoundNames : k \in graph.node.ignored_symbols
        /\ \A k \in CodeNames \ BoundNames :
              k \in graph.node.ignored_symbols <=> k \in pre.node.ignored_symbols

\* A binding was prepended for a name that was not ignored, a key of the
\* mapping that got no binding stayed out of the set.
C23_Witness ==
    /\ CppCall("replace_in_codeblock")
    /\ call.node
    /\ \E k \in BoundNames : k \notin pre.node.ignored_symbols /\ k \in graph.node.ignored_symbols
    /\ \E k \in DOMAIN call.repl \ BoundNames : k \notin graph.node.ignored_symbols

\* C27: in the prefix that replace_in_codeblock puts in front of a C++ code
\* block, the right-hand side of a binding is not a name that a binding
\* earlier in the prefix has bound: it means what the name meant outside,
\* for every order of the mapping.
C27_BindingsNotCaptured ==
    CppCall("replace_in_codeblock") =>
        \A j \in BindingStarts : \A i \in BindingStarts :
            i < j => graph.node.code[i + 1].n # graph.node.code[j + 3].n

\* ----------------------------------- more claims on replace_dict (Spec)
NoValueIsKey(repl) == \A k \in DOMAIN repl : repl[k] \notin DOMAIN repl

\* C28: a second replace_dict with the mapping of the call before it, no
\* value of the mapping being a key, leaves the subgraph as the first call
\* left it: code with one binding per old name, symbolic properties, data
\* names and memlets.
C28_SecondCallChangesNothing ==
    [][(/\ call.op = "replace_dict"
        /\ exc = "none"
        /\ call'.op = "replace_dict"
        /\ ncalls' = ncalls + 1
        /\ call'.repl = call.repl
        /\ NoValueIsKey(call.repl))
       => (graph' = graph /\ exc' = "none")]_vars

\* --------------------- more claims on replace_datadesc_names (SpecDatadesc)
Injective(f) == \A j, k \in DOMAIN f : f[j] = f[k] => j = k

\* C26: replace_datadesc_names with an injective mapping whose targets are
\* each absent from the descriptor table or keys of the mapping keeps the
\* number of descriptors, binds every new name to the descriptor that was
\* under its old name and leaves the other descriptors alone, in every order
\* of the table.
C26_PermutationKeepsDescriptors ==
    (/\ call.op = "replace_datadesc_names"
     /\ Injective(call.repl)
     /\ \A k \in DOMAIN call.repl : call.repl[k] \notin DOMAIN pre.arrays \/ call.repl[k] \in DOMAIN call.repl) =>
        LET renamed == DOMAIN call.repl \cap DOMAIN pre.arrays
            targets == {call.repl[k] : k \in renamed}
        IN /\ Cardinality(DOMAIN sdfg.arrays) = Cardinality(DOMAIN pre.arrays)
           /\ \A k \in renamed :
                 call.repl[k] \in DOMAIN sdfg.arrays /\ sdfg.arrays[call.repl[k]] = pre.arrays[k]
           /\ \A k \in DOMAIN pre.arrays \ (renamed \cup targets) :
                 k \in DOMAIN sdfg.arrays /\ sdfg.arrays[k] = pre.arrays[k]

\* ------------------------- the driver of ConstSymbolToMap (SpecApply)
\* C25: once apply has rewritten a match, can_be_applied on the same pair of
\* states returns false, and apply is never run on a match whose edge has no
\* qualifying assignment; so each application uses up an edge with
\* qualifying assignments and the driver comes to a stop.
C25_DriverProgress ==
    /\ [][(/\ Applied
           /\ exc = "none"
           /\ call'.op = "can_be_applied"
           /\ call'.symbol_state = call.symbol_state
           /\ call'.compute_state = call.compute_state)
          => ~xf'.ret]_vars
    /\ [](Applied => QualifyingSymbols(pre, call.symbol_state, call.compute_state) # {})

\* ------------------------------- more claims on the wrapping (SpecWrap)
\* The maps step 7 added: an entry and, next to it, its exit
NewEntries == {m \in NewNodes : sdfg.nodes[m].kind = "MapEntry"}
Matching(conns, from, to) == \A c \in conns : c.prefix = from => WConn(to, c.name) \in conns

\* C30: after step 7 every map it added is a scope around a tasklet that had
\* to be wrapped, and every such tasklet is in one, also a tasklet without
\* in-edges or without out-edges: the entry has an edge to the tasklet, the
\* exit has an edge from the tasklet, every in-edge of the tasklet comes from
\* the entry (the tasklet is in the scope of the entry), and every connector
\* IN_x of the entry or the exit has its connector OUT_x.
C30_MapsAreScopes ==
    Wrapped =>
        /\ \A me \in NewEntries :
              LET mx == me + 1 IN
              /\ mx \in NewNodes
              /\ sdfg.nodes[mx].kind = "MapExit"
              /\ \E n \in WTasklets :
                    /\ ShouldWrap(n)
                    /\ \E e \in sdfg.edges : e.src = me /\ e.dst = n
                    /\ \E e \in sdfg.edges : e.src = n /\ e.dst = mx
                    /\ \A e \in WEdgesIn(sdfg, n) : e.src = me
                    /\ \A e \in WEdgesOut(sdfg, n) : e.dst = mx
              /\ Matching(sdfg.nodes[me].in_connectors \cup sdfg.nodes[me].out_connectors, "IN_", "OUT_")
              /\ Matching(sdfg.nodes[mx].in_connectors \cup sdfg.nodes[mx].out_connectors, "IN_", "OUT_")
        /\ \A n \in WTasklets : ShouldWrap(n) => \E me \in NewEntries : \E e \in sdfg.edges : e.src = me /\ e.dst = n

\* ------------------------------------------- step 5 with nested SDFG nodes
\* A nested SDFG node of a state: whether it is at top level and outside a
\* GPU kernel, and the access node at the far end of the memlet path of each
\* of its connectors.
NestedNode(toplevel, ins, outs) == [toplevel |-> toplevel, ins |-> ins, outs |-> outs]
NestedNodeLists ==
    {<<NestedNode(TRUE, {<<"a", Original(2)>>}, outs), NestedNode(top, {<<"b", Original(3)>>}, {})>> :
        outs \in {{}, {<<"c", Original(3)>>}}, top \in BOOLEAN}
NestedGraphs ==
    {[arrays |-> g.arrays, unit_shape |-> g.unit_shape, copies |-> g.copies,
      one_element |-> g.one_element, nested_on_gpu |-> g.nested_on_gpu,
      tasklets |-> g.tasklets, nested |-> ns]
        : g \in {h \in FixGraphs : h.unit_shape = {} /\ h.copies = {} /\ ~h.nested_on_gpu},
          ns \in NestedNodeLists}

\* The list nsdfgs after one pass over the nodes from node i on
\* (lines 413-416)
RECURSIVE NsdfgsAfterPass(_, _, _)
NsdfgsAfterPass(g, i, nsdfgs) ==
    IF i > Len(g.nested) THEN nsdfgs
    ELSE NsdfgsAfterPass(g, i + 1, IF g.nested[i].toplevel THEN Append(nsdfgs, i) ELSE nsdfgs)

\* The connectors whose outer data is on the GPU (lines 438-449)
ExcludedConnectors(g, conns) == {c[1] : c \in {d \in conns : g.arrays[d[2]].storage \in gpu_storage}}

\* The option skip_scalar_tasklets (lines 111-114) is part of the run; no line
\* of apply reads it.
InitNested ==
    /\ sdfg \in NestedGraphs
    /\ \E skip \in BOOLEAN :
          xf = [skip_scalar_tasklets |-> skip,
                pc |-> "loop", changed |-> TRUE, global_code_nodes |-> {}, gpu_scalars |-> {}, passes |-> 0,
                nsdfgs |-> <<>>, next |-> 1, applications |-> <<>>]
    /\ graph = [node |-> DefaultNode, edge |-> DefaultMemlet]
    /\ cfg = IdleCfg
    /\ pre = sdfg
    /\ call = NoCall
    /\ exc = "none"
    /\ warned = FALSE
    /\ ncalls = 0

\* One pass of `while changed` over tasklets and nested SDFG nodes
\* (lines 409-434)
DoNestedPass ==
    /\ xf.pc = "loop"
    /\ xf.changed
    /\ LET r == ScalarPass(sdfg, 1, [global_code_nodes |-> xf.global_code_nodes,
                                     gpu_scalars |-> xf.gpu_scalars,
                                     changed |-> FALSE])
       IN xf' = [xf EXCEPT !.changed = r.changed, !.global_code_nodes = r.global_code_nodes,
                           !.gpu_scalars = r.gpu_scalars, !.passes = @ + 1,
                           !.nsdfgs = NsdfgsAfterPass(sdfg, 1, @)]
    /\ call' = [op |-> "scalar_pass"]
    /\ UNCHANGED <<graph, sdfg, cfg, pre, exc, warned, ncalls>>

\* The loop ends when a pass changed nothing; the recursion starts
DoNestedExit ==
    /\ xf.pc = "loop"
    /\ ~xf.changed
    /\ xf' = [xf EXCEPT !.pc = "recurse"]
    /\ call' = [op |-> "scalar_exit"]
    /\ UNCHANGED <<graph, sdfg, cfg, pre, exc, warned, ncalls>>

\* One iteration of `for node, state in nsdfgs` (lines 437-455): the
\* transformation is applied to the nested SDFG of the entry with the
\* exclusion sets of its connectors
DoRecurse ==
    /\ xf.pc = "recurse"
    /\ xf.next <= Len(xf.nsdfgs)
    /\ LET n == xf.nsdfgs[xf.next]
       IN xf' = [xf EXCEPT !.next = @ + 1,
                           !.applications = Append(@, [node |-> n,
                                exclude_copyin |-> ExcludedConnectors(sdfg, sdfg.nested[n].ins),
                                exclude_copyout |-> ExcludedConnectors(sdfg, sdfg.nested[n].outs)])]
    /\ call' = [op |-> "recurse"]
    /\ UNCHANGED <<graph, sdfg, cfg, pre, exc, warned, ncalls>>

\* The recursion is over
DoRecurseExit ==
    /\ xf.pc = "recurse"
    /\ xf.next > Len(xf.nsdfgs)
    /\ xf' = [xf EXCEPT !.pc = "done"]
    /\ call' = [op |-> "recurse_exit"]
    /\ UNCHANGED <<graph, sdfg, cfg, pre, exc, warned, ncalls>>

NextNested == DoNestedPass \/ DoNestedExit \/ DoRecurse \/ DoRecurseExit
SpecNested == InitNested /\ [][NextNested]_vars

\* ------------------------------------- claims on the recursion (SpecNested)
ApplicationsTo(n) == {k \in 1..Len(xf.applications) : xf.applications[k].node = n}

\* C29: when the recursion of step 5 is over, the transformation has been
\* applied exactly once to each nested SDFG node at top level and outside a
\* GPU kernel, with the connectors whose outer data is in GPU storage as
\* exclusion sets, and not to any other nested SDFG node, however many passes
\* the loop made.
C29_NestedOffloadedOnce ==
    xf.pc = "done" =>
        \A n \in 1..Len(sdfg.nested) :
            /\ Cardinality(ApplicationsTo(n)) = (IF sdfg.nested[n].toplevel THEN 1 ELSE 0)
            /\ \A k \in ApplicationsTo(n) :
                  /\ xf.applications[k].exclude_copyin = ExcludedConnectors(sdfg, sdfg.nested[n].ins)
                  /\ xf.applications[k].exclude_copyout = ExcludedConnectors(sdfg, sdfg.nested[n].outs)

\* A free tasklet that touches scalars in default storage and nothing else
TouchedBy(i) == sdfg.tasklets[i].ins \cup sdfg.tasklets[i].outs
HostScalarTasklets ==
    {i \in FreeTasklets :
        /\ TouchedBy(i) # {}
        /\ \A d \in TouchedBy(i) : sdfg.arrays[d].kind = "Scalar" /\ sdfg.arrays[d].storage = "Default"}

\* C24: when step 5 is over, a free tasklet that touches host-default scalars
\* only is, with skip_scalar_tasklets on, not among the tasklets to wrap and
\* its scalars are not among the GPU scalars; with the option off it is among
\* the tasklets to wrap.
C24_OptionGovernsScalarTasklets ==
    xf.pc = "done" =>
        \A i \in HostScalarTasklets :
            IF xf.skip_scalar_tasklets
            THEN i \notin xf.global_code_nodes /\ TouchedBy(i) \cap xf.gpu_scalars = {}
            ELSE i \in xf.global_code_nodes

\* --------------------------------- step 6: the storage of transient data
\* A descriptor as step 6 sees it: its class, storage, transient flag and
\* lifetime, and whether its free symbols are all constant symbols of the
\* SDFG (len(dsyms - const_syms) == 0, line 485)
TransientDesc(kind, storage, transient, lifetime, const_shape) ==
    [kind |-> kind, storage |-> storage, transient |-> transient, lifetime |-> lifetime,
     const_shape |-> const_shape]
\* An access node: its data, whether it is outside every scope
\* (sdict[node] is None), and whether one of its out-edges ends on a map
\* entry, that is, feeds a dynamic map range (line 469)
TransientAccess(d, toplevel, dynamic_range) ==
    [data |-> d, toplevel |-> toplevel, dynamic_range |-> dynamic_range]

\* The body of the loop over the access nodes for one node (lines 465-490)
ModifyTransient(arrays, node, opts) ==
    LET nodedesc == arrays[node.data]
    IN  IF ~nodedesc.transient \/ node.dynamic_range THEN arrays
        ELSE IF node.toplevel /\ nodedesc.storage \notin gpu_storage
        THEN IF nodedesc.kind = "Scalar" /\ node.data \notin opts.gpu_scalars THEN arrays
             ELSE [arrays EXCEPT ![node.data] =
                      [@ EXCEPT !.storage = IF node.data \notin opts.host_data THEN "GPU_Global" ELSE @,
                                !.lifetime = IF /\ opts.toplevel_trans
                                                /\ nodedesc.kind \notin {"Stream", "View"}
                                                /\ nodedesc.const_shape
                                             THEN "SDFG" ELSE @]]
        ELSE IF nodedesc.storage \notin gpu_storage /\ opts.register_trans
        THEN [arrays EXCEPT ![node.data].storage = "Register"]
        ELSE arrays

\* The loop over the access nodes, from node i on (lines 462-490)
RECURSIVE ModifyTransients(_, _, _, _)
ModifyTransients(arrays, nodes, i, opts) ==
    IF i > Len(nodes) THEN arrays
    ELSE ModifyTransients(ModifyTransient(arrays, nodes[i], opts), nodes, i + 1, opts)

\* The SDFGs step 6 is run on: two data and two access nodes. The first
\* datum is a transient on the host of any class, the second an array on the
\* host or in GPU shared memory, transient or not, or a transient scalar; the
\* first node accesses the first datum, the second node either.
TransientData == {Original(b) : b \in 1..NumData}
TransientSdfgs ==
    {[arrays |-> (Original(1) :> TransientDesc(k1, "Default", TRUE, "Scope", c1)) @@
                 (Original(2) :> TransientDesc(d2[1], d2[2], d2[3], "Scope", TRUE)),
      nodes |-> <<TransientAccess(Original(1), t1, y1), TransientAccess(a2, t2, FALSE)>>]
        : k1 \in {"Array", "Scalar", "Stream", "View"}, c1 \in BOOLEAN,
          d2 \in {<<"Array", "Default", TRUE>>, <<"Array", "GPU_Shared", TRUE>>,
                  <<"Array", "Default", FALSE>>, <<"Scalar", "Default", TRUE>>},
          t1 \in BOOLEAN, y1 \in BOOLEAN, a2 \in TransientData, t2 \in BOOLEAN}
TransientOptions ==
    [toplevel_trans : BOOLEAN, register_trans : BOOLEAN,
     host_data : {{}, {Original(1)}}, gpu_scalars : {{}, {Original(1)}}]

InitTransients ==
    /\ sdfg \in TransientSdfgs
    /\ xf \in {o \in TransientOptions :
                  \A d \in o.gpu_scalars : sdfg.arrays[d].kind = "Scalar"}
    /\ graph = [node |-> DefaultNode, edge |-> DefaultMemlet]
    /\ cfg = IdleCfg
    /\ pre = sdfg
    /\ call = NoCall
    /\ exc = "none"
    /\ warned = FALSE
    /\ ncalls = 0

\* Step 6 (lines 457-490)
DoModifyTransients ==
    /\ ncalls = 0
    /\ sdfg' = [sdfg EXCEPT !.arrays = ModifyTransients(@, sdfg.nodes, 1, xf)]
    /\ pre' = sdfg
    /\ call' = [op |-> "modify_transients"]
    /\ ncalls' = 1
    /\ UNCHANGED <<graph, cfg, xf, exc, warned>>

NextTransients == DoModifyTransients
SpecTransients == InitTransients /\ [][NextTransients]_vars

\* ----------------------------------------- claims on step 6 (SpecTransients)
TransientsModified == call.op = "modify_transients"
AccessesTo(d) == {i \in 1..Len(pre.nodes) : pre.nodes[i].data = d}
WasOnHost(d) == pre.arrays[d].transient /\ pre.arrays[d].storage \notin gpu_storage
HostScalar(d) == pre.arrays[d].kind = "Scalar" /\ d \notin xf.gpu_scalars
PromotedToGpu(d) == WasOnHost(d) /\ sdfg.arrays[d].storage = "GPU_Global"

\* C22: after step 6, (a) every transient with a top-level access node that
\* was not in GPU storage, is not in host_data and is not a scalar left on
\* the host has storage GPU_Global; (b) a transient gets lifetime SDFG in this
\* step exactly if the step promoted it, toplevel_trans is on, it is not a
\* stream or a view and the free symbols of its descriptor are all constant,
\* and a transient on the host named in host_data keeps its descriptor;
\* (c) a transient on the host, not in host_data, whose access nodes are all
\* inside scopes has storage Register when register_trans is on.
C22_TransientsPromoted ==
    TransientsModified =>
        \A d \in DOMAIN pre.arrays :
            /\ (/\ WasOnHost(d)
                /\ \E i \in AccessesTo(d) : pre.nodes[i].toplevel
                /\ d \notin xf.host_data
                /\ ~HostScalar(d))
               => sdfg.arrays[d].storage = "GPU_Global"
            /\ pre.arrays[d].transient =>
                  ((sdfg.arrays[d].lifetime = "SDFG" /\ pre.arrays[d].lifetime # "SDFG")
                   <=> (/\ PromotedToGpu(d)
                        /\ xf.toplevel_trans
                        /\ pre.arrays[d].kind \notin {"Stream", "View"}
                        /\ pre.arrays[d].const_shape))
            /\ (WasOnHost(d) /\ d \in xf.host_data) => sdfg.arrays[d] = pre.arrays[d]
            /\ (/\ WasOnHost(d)
                /\ d \notin xf.host_data
                /\ AccessesTo(d) # {}
                /\ \A i \in AccessesTo(d) : ~pre.nodes[i].toplevel
                /\ xf.register_trans)
               => sdfg.arrays[d].storage = "Register"

\* -------------------------- step 8 on SDFGs with branching interstate edges
\* The SDFGs: the first datum is an array on the host or in GPU global memory
\* or a scalar, the second an array, transient or not, on the host or in GPU
\* global memory; the first state reads the first datum and may write the
\* second; three states, an edge from the first to the second and an edge
\* from the first or the second to the third, each reading any of the data.
InterstateDescs ==
    {<<d1, d2>> :
        d1 \in {Desc("Array", "Default", FALSE), Desc("Array", "GPU_Global", FALSE), Desc("Scalar", "Default", FALSE)},
        d2 \in {Desc("Array", "Default", TRUE), Desc("Array", "Default", FALSE), Desc("Array", "GPU_Global", FALSE)}}
InterstateSdfgs ==
    {[arrays |-> [d \in {Original(k) : k \in DataBases} |-> descs[d.base]],
      blocks |-> <<GpuState("state", <<GpuAccess(Original(1), TRUE, FALSE, <<>>)>> \o n2, {}),
                   GpuState("state", <<>>, {}),
                   GpuState("state", n3, {})>>,
      edges |-> {GpuEdge(1, 2, y1), GpuEdge(b, 3, y2)}]
        : descs \in InterstateDescs,
          n2 \in {<<>>, <<GpuAccess(Original(2), FALSE, FALSE, <<FullWrite>>)>>},
          n3 \in {<<>>, <<GpuAccess(Original(2), TRUE, FALSE, <<>>)>>},
          y1 \in SUBSET {Original(k) : k \in DataBases},
          y2 \in SUBSET {Original(k) : k \in DataBases},
          b \in {1, 2}}

InitInterstate ==
    /\ sdfg \in InterstateSdfgs
    /\ xf = [config |-> [exclude_copyin |-> {}, exclude_copyout |-> {}], result |-> <<>>]
    /\ graph = [node |-> DefaultNode, edge |-> DefaultMemlet]
    /\ cfg = IdleCfg
    /\ pre = sdfg
    /\ call = NoCall
    /\ exc = "none"
    /\ warned = FALSE
    /\ ncalls = 0

SpecInterstate == InitInterstate /\ [][NextGpu]_vars

\* ------------------------------------ claims on step 8 (SpecInterstate)
\* The interstate edges step 8 finds: those there were and those of the
\* copy-in and copy-out states
EdgesBeforeCopyOut ==
    pre.edges \cup {GpuEdge(Result.copyin_state, Result.start_block, {})}
              \cup {GpuEdge(b, Result.copyout_state, {}) : b \in Result.end_blocks}
OutEdgesBefore(b) == {e \in EdgesBeforeCopyOut : e.src = b}
OutEdgesAfter(b) == {e \in sdfg.edges : e.src = b}
\* The names on the GPU step 8 looks for: the arrays with a shadow and the
\* data found in GPU global memory on an interstate edge
DeviceNames == Cloned \cup Result.data_already_on_gpu
NeededBy(b) == UNION {e.syms : e \in OutEdgesBefore(b)} \cap DeviceNames
RenamedTo(syms, host) == {IF x \in DOMAIN host THEN host[x] ELSE x : x \in syms}
\* c is an interposed state of b that copies the needed data to the names
\* host gives them and has the former out-edges of b, renamed
InterposedFor(b, c, host) ==
    /\ sdfg.blocks[c].label = "icopyout"
    /\ OutEdgesAfter(b) = {GpuEdge(b, c, {})}
    /\ \A e \in sdfg.edges : e.dst = c => e.src = b
    /\ \A x \in NeededBy(b) :
          IF x \in Result.data_already_on_gpu
          THEN /\ host[x] # x
               /\ sdfg.arrays[host[x]].storage \notin gpu_storage
               /\ <<x, host[x]>> \in Copies(sdfg.blocks[c])
          ELSE /\ host[x] = x
               /\ <<Result.cloned_arrays[x], x>> \in Copies(sdfg.blocks[c])
    /\ OutEdgesAfter(c) = {GpuEdge(c, e.dst, RenamedTo(e.syms, host)) : e \in OutEdgesBefore(b)}
    /\ \A e \in OutEdgesAfter(c) : \A x \in e.syms : sdfg.arrays[x].storage \notin gpu_storage

\* C21: a block with an out-edge that reads a name on the GPU (an array with
\* a shadow or a datum already on the GPU) gets exactly one interposed state:
\* the block has a single out-edge, unconditional, to it; the former out-edges
\* of the block leave the interposed state, to the same blocks and reading
\* the same names but for the GPU names, replaced by host names; the state
\* copies each needed datum from its GPU name to its host name; no out-edge
\* of the interposed state reads a name whose descriptor is in GPU storage.
\* A block whose out-edges read no such name keeps its out-edges.
C21_InterstateCopyOut ==
    GpuApplied =>
        \A b \in 1..(Len(pre.blocks) + 2) :
            IF NeededBy(b) = {}
            THEN OutEdgesAfter(b) = OutEdgesBefore(b)
            ELSE \E c \in (Len(pre.blocks) + 3)..Len(sdfg.blocks) :
                    \E host \in [NeededBy(b) -> DOMAIN sdfg.arrays] : InterposedFor(b, c, host)

====
